---- MODULE Spec2Model ----
(***************************************************************************)
(* A model of the pghero-controller Database reconciler                    *)
(* (controllers/database_controller.go).                                   *)
(*                                                                         *)
(* Texts are modelled as sequences: a connection URL is the sequence of    *)
(* its tokens (scheme, user, ":", password, "@", host), the empty string   *)
(* is << >>, a formatted message is << format, argument... >> and the      *)
(* database.yml payload is the sequence of its entries in the order the    *)
(* code appends them (the "databases:" header line is implicit).           *)
(* Timestamps (LastUpdated, LastTransitionTime) are left out.              *)
(***************************************************************************)
EXTENDS Integers, Sequences, FiniteSets, TLC

VARIABLES
    dbs,       \* the Database resources stored in the control plane, by metadata.name
    secrets,   \* the Secret store, by <<namespace, name>>
    pg,        \* the PostgreSQL server behind each resource's URL
    cm,        \* the ConfigMap pghero-databases of each namespace
    wk,        \* the reconcile in flight for each resource (stepwise specification)
    lastCall   \* what the last Reconcile invocation did and returned

vars == <<dbs, secrets, pg, cm, wk, lastCall>>

----------------------------------------------------------------------------
(* Identities and texts *)

Dbs == {"d1", "d2"}
ListOrder == <<"d1", "d2">>
Namespaces == {"x"}
DbNamespace == [d \in Dbs |-> "x"]

databaseFinalizer == "pghero.mithucste30.io/finalizer"
configMapName == "pghero-databases"
DataKey == "database.yml"
CountKey == "pghero.mithucste30.io/database-count"
ManagedLabels ==
    [k \in {"app.kubernetes.io/name", "app.kubernetes.io/component",
            "app.kubernetes.io/managed-by"} |->
        CASE k = "app.kubernetes.io/name" -> "pghero"
          [] k = "app.kubernetes.io/component" -> "database-config"
          [] OTHER -> "pghero-controller"]
RequiredExtensions == <<"pg_stat_statements">>
CatalogOrder == <<"plpgsql", "pg_stat_statements">>

EmptyText == << >>
NoErr == ""
UrlApp == <<"postgres://", "app", ":", "pw", "@", "h1">>
UrlSec == <<"postgresql://", "mon", "@", "h2">>
UrlSuper == <<"postgres://", "postgres", ":", "pw", "@", "h1">>

NoRef == [set |-> FALSE, name |-> "", key |-> "", namespace |-> ""]
SecretRef(n, k, ns) == [set |-> TRUE, name |-> n, key |-> k, namespace |-> ns]
UrlSecretId == <<"x", "db-url">>
SuSecretId == <<"x", "db-su">>
SecretIds == {UrlSecretId, SuSecretId}
NoSecret == [present |-> FALSE, data |-> << >>]
EmptySecret == [present |-> TRUE, data |-> << >>]
SecretWith(k, v) == [present |-> TRUE, data |-> (k :> v)]

Range(s) == {s[i] : i \in DOMAIN s}

\* fmt.Sprintf("%d", n)
Itoa(n) ==
    CASE n = 0 -> "0" [] n = 1 -> "1" [] n = 2 -> "2" [] n = 3 -> "3" [] OTHER -> "many"

EmptyStatus ==
    [phase |-> "", message |-> EmptyText, configMapRef |-> "",
     connectionStatus |-> "", extensionsReady |-> FALSE,
     requiredExtensions |-> << >>, installedExtensions |-> << >>,
     lastError |-> EmptyText, conditions |-> << >>]

\* one API or driver call of an invocation, with the object or user it names
Op(name, arg) == [op |-> name, arg |-> arg]
Did(ops, name) == \E i \in DOMAIN ops : ops[i].op = name

----------------------------------------------------------------------------
(* Resolver *)

\* getDatabaseURL without the check of the key: a variant the properties must
\* tell from the code
GetDatabaseURL_NoKeyCheck(database, sec) ==
    IF database.spec.urlFromSecret.set
    THEN LET secretRef == database.spec.urlFromSecret
             namespace == IF secretRef.namespace = "" THEN database.namespace
                          ELSE secretRef.namespace
             id == <<namespace, secretRef.name>>
         IN  IF ~(id \in DOMAIN sec /\ sec[id].present)
             THEN [url |-> EmptyText, err |-> "failed to get secret"]
             ELSE [url |-> IF secretRef.key \in DOMAIN sec[id].data
                           THEN sec[id].data[secretRef.key] ELSE EmptyText,
                   err |-> NoErr]
    ELSE [url |-> database.spec.url, err |-> NoErr]

\* getDatabaseURL (lines 101-129)
GetDatabaseURL(database, sec) ==
    IF database.spec.urlFromSecret.set
    THEN LET secretRef == database.spec.urlFromSecret
             namespace == IF secretRef.namespace = "" THEN database.namespace
                          ELSE secretRef.namespace
             id == <<namespace, secretRef.name>>
         IN  IF ~(id \in DOMAIN sec /\ sec[id].present)
             THEN [url |-> EmptyText, err |-> "failed to get secret"]
             ELSE IF secretRef.key \notin DOMAIN sec[id].data
             THEN [url |-> EmptyText, err |-> "key not found in secret"]
             ELSE [url |-> sec[id].data[secretRef.key], err |-> NoErr]
    ELSE [url |-> database.spec.url, err |-> NoErr]

\* getSuperuserURL that reads the secret only: a variant
GetSuperuserURL_SecretOnly(database, regularURL, sec) ==
    IF database.spec.superuserUrlFromSecret.set
    THEN LET secretRef == database.spec.superuserUrlFromSecret
             namespace == IF secretRef.namespace = "" THEN database.namespace
                          ELSE secretRef.namespace
             id == <<namespace, secretRef.name>>
         IN  IF ~(id \in DOMAIN sec /\ sec[id].present)
             THEN [url |-> EmptyText, err |-> "failed to get superuser secret"]
             ELSE IF secretRef.key \notin DOMAIN sec[id].data
             THEN [url |-> EmptyText, err |-> "key not found in superuser secret"]
             ELSE [url |-> sec[id].data[secretRef.key], err |-> NoErr]
    ELSE [url |-> EmptyText, err |-> NoErr]

\* getSuperuserURL that prefers the literal URL to the secret: a variant
GetSuperuserURL_LiteralFirst(database, regularURL, sec) ==
    IF database.spec.superuserUrl # EmptyText
    THEN [url |-> database.spec.superuserUrl, err |-> NoErr]
    ELSE IF database.spec.superuserUrlFromSecret.set
    THEN LET secretRef == database.spec.superuserUrlFromSecret
             namespace == IF secretRef.namespace = "" THEN database.namespace
                          ELSE secretRef.namespace
             id == <<namespace, secretRef.name>>
         IN  IF ~(id \in DOMAIN sec /\ sec[id].present)
             THEN [url |-> EmptyText, err |-> "failed to get superuser secret"]
             ELSE IF secretRef.key \notin DOMAIN sec[id].data
             THEN [url |-> EmptyText, err |-> "key not found in superuser secret"]
             ELSE [url |-> sec[id].data[secretRef.key], err |-> NoErr]
    ELSE [url |-> EmptyText, err |-> NoErr]

\* getSuperuserURL (lines 132-165)
GetSuperuserURL(database, regularURL, sec) ==
    IF database.spec.superuserUrlFromSecret.set
    THEN LET secretRef == database.spec.superuserUrlFromSecret
             namespace == IF secretRef.namespace = "" THEN database.namespace
                          ELSE secretRef.namespace
             id == <<namespace, secretRef.name>>
         IN  IF ~(id \in DOMAIN sec /\ sec[id].present)
             THEN [url |-> EmptyText, err |-> "failed to get superuser secret"]
             ELSE IF secretRef.key \notin DOMAIN sec[id].data
             THEN [url |-> EmptyText, err |-> "key not found in superuser secret"]
             ELSE [url |-> sec[id].data[secretRef.key], err |-> NoErr]
    ELSE IF database.spec.superuserUrl # EmptyText
    THEN [url |-> database.spec.superuserUrl, err |-> NoErr]
    ELSE [url |-> EmptyText, err |-> NoErr]

\* strings.Index over the tokens: the first position holding tok, 0 if none
IndexOf(s, tok) ==
    IF \E i \in DOMAIN s : s[i] = tok
    THEN CHOOSE i \in DOMAIN s : s[i] = tok /\ \A j \in 1..(i - 1) : s[j] # tok
    ELSE 0

TrimPrefix(s, tok) == IF Len(s) > 0 /\ s[1] = tok THEN Tail(s) ELSE s

ExtractUsernameFromURL(dbURL) ==
    IF ~(Len(dbURL) > 0 /\ dbURL[1] = "postgres://")
       /\ ~(Len(dbURL) > 0 /\ dbURL[1] = "postgresql://")
    THEN EmptyText
    ELSE LET urlWithoutProtocol ==
                 TrimPrefix(TrimPrefix(dbURL, "postgres://"), "postgresql://")
             colon == IndexOf(urlWithoutProtocol, ":")
             at == IndexOf(urlWithoutProtocol, "@")
         IN  IF colon > 1 THEN SubSeq(urlWithoutProtocol, 1, colon - 1)
             ELSE IF at > 1 THEN SubSeq(urlWithoutProtocol, 1, at - 1)
             ELSE EmptyText

----------------------------------------------------------------------------
(* ExtensionProvisioner.  p is the server behind the resource's URL:       *)
(*   conn     "ok" | "open failed" | "unreachable"   sql.Open / PingContext *)
(*   query    "ok" | "first" | "second"   which pg_extension query fails   *)
(*            | "cut short"   the rows of the second query end early       *)
(*   create   "ok" | "permission denied" | "must be superuser" | "other"   *)
(*            the outcome of CREATE EXTENSION over the regular connection  *)
(*   super    "ok" | "unreachable" | "create failed"                       *)
(*            the outcome of the superuser connection and its CREATE       *)
(*   installed  the extensions in pg_extension                             *)

\* SELECT extname FROM pg_extension, scanned into a slice
QueryExtensions(installed) == SelectSeq(CatalogOrder, LAMBDA e : e \in installed)

Contains(list, x) == \E i \in DOMAIN list : list[i] = x

MissingExtensions(required, installedExtensions) ==
    SelectSeq(required, LAMBDA e : ~Contains(installedExtensions, e))

\* the test of line 323 taking every failure for a permission error: a variant
IsPermissionError_AnyFailure(errMsg) == TRUE

\* the test of line 323 without its second substring: a variant
IsPermissionError_DeniedOnly(errMsg) == errMsg = "permission denied"

\* the test of line 323
IsPermissionError(errMsg) == errMsg \in {"permission denied", "must be superuser"}

LastErrPermission(ext) ==
    <<"Permission denied to create extension %s. Database user needs superuser privileges or provide superuser credentials via superuserUrl or superuserUrlFromSecret.", ext>>
LastErrSuperuserFailed(ext) ==
    <<"Failed to create extension %s even with superuser credentials", ext>>

CreateExtensionAsSuperuser(superuserURL, extName, database, p, installed) ==
    IF p.super = "unreachable"
    THEN [ok |-> FALSE, installed |-> installed,
          ops |-> <<Op("sql.Open superuser", ""), Op("Ping superuser", "")>>]
    ELSE IF p.super = "create failed"
    THEN [ok |-> FALSE, installed |-> installed,
          ops |-> <<Op("sql.Open superuser", ""), Op("Ping superuser", ""),
                    Op("CREATE EXTENSION superuser", extName)>>]
    ELSE LET username == ExtractUsernameFromURL(database.spec.url)
             grants == IF username # EmptyText /\ username # <<"postgres">>
                       THEN <<Op("GRANT pg_monitor", username),
                              Op("GRANT EXECUTE", username)>>
                       ELSE << >>
         IN  [ok |-> TRUE, installed |-> installed \cup {extName},
              ops |-> <<Op("sql.Open superuser", ""), Op("Ping superuser", ""),
                        Op("CREATE EXTENSION superuser", extName)>> \o grants]

\* what setupDatabaseExtensions gives back: (ready, err), the in-memory
\* status it leaves on the object, the server's catalog afterwards and the
\* calls it made
SetupReturn(ready, err, status, installed, ops) ==
    [ready |-> ready, err |-> err, status |-> status, installed |-> installed,
     ops |-> ops]

\* one round of the loop over missingExtensions (lines 317-348); acc carries
\* the in-memory status, the server's catalog, the calls made, and whether
\* the function returned from inside the loop
InstallOne(ext, database, dbURL, p, sec, acc) ==
    IF p.create = "ok"
    THEN [acc EXCEPT !.installed = @ \cup {ext}]
    ELSE IF IsPermissionError(p.create)
    THEN LET su == GetSuperuserURL(database, dbURL, sec)
             c == CreateExtensionAsSuperuser(su.url, ext, database, p, acc.installed)
         IN  IF su.err # NoErr \/ su.url = EmptyText
             THEN [acc EXCEPT !.returned = TRUE, !.ready = FALSE, !.err = NoErr,
                              !.status.lastError = LastErrPermission(ext),
                              !.status.extensionsReady = FALSE]
             ELSE IF ~c.ok
             THEN [acc EXCEPT !.ops = @ \o c.ops,
                              !.returned = TRUE, !.ready = FALSE, !.err = NoErr,
                              !.status.lastError = LastErrSuperuserFailed(ext),
                              !.status.extensionsReady = FALSE]
             ELSE [acc EXCEPT !.ops = @ \o c.ops, !.installed = c.installed]
    ELSE [acc EXCEPT !.returned = TRUE, !.ready = FALSE,
                     !.err = "failed to create extension",
                     !.status.lastError =
                         <<"Failed to create extension %s: %v", ext, p.create>>]

RECURSIVE InstallMissing(_, _, _, _, _, _)
InstallMissing(missing, database, dbURL, p, sec, acc) ==
    IF missing = << >> \/ acc.returned THEN acc
    ELSE InstallMissing(Tail(missing), database, dbURL, p, sec,
             InstallOne(Head(missing), database, dbURL, p, sec,
                 [acc EXCEPT !.ops = Append(@, Op("CREATE EXTENSION", Head(missing)))]))

\* the rows the second query yields (lines 357-365): the loop over rows.Next
\* ends at the first row the driver fails on and rows.Err is never read, so
\* a result set that is cut short reads as a catalog without the later rows
VerifiedRows(p, installed) ==
    IF p.query = "cut short" THEN << >> ELSE QueryExtensions(installed)

\* setupDatabaseExtensions trusting the creations it reported: a variant
SetupVerify_TrustCreate(p, acc) ==
    IF acc.returned
    THEN SetupReturn(acc.ready, acc.err, acc.status, acc.installed, acc.ops)
    ELSE IF p.query = "second"
    THEN SetupReturn(FALSE, "failed to verify extensions", acc.status, acc.installed,
                     Append(acc.ops, Op("SELECT extname", "verify")))
    ELSE SetupReturn(TRUE, NoErr,
                     [acc.status EXCEPT
                          !.installedExtensions = VerifiedRows(p, acc.installed),
                          !.extensionsReady = TRUE, !.lastError = EmptyText],
                     acc.installed,
                     Append(acc.ops, Op("SELECT extname", "verify")))

\* setupDatabaseExtensions after the loop (lines 350-389)
SetupVerify(p, acc) ==
    IF acc.returned
    THEN SetupReturn(acc.ready, acc.err, acc.status, acc.installed, acc.ops)
    ELSE IF p.query = "second"
    THEN SetupReturn(FALSE, "failed to verify extensions", acc.status, acc.installed,
                     Append(acc.ops, Op("SELECT extname", "verify")))
    ELSE
      LET verified == VerifiedRows(p, acc.installed)
          allInstalled ==
              \A i \in DOMAIN RequiredExtensions : Contains(verified, RequiredExtensions[i])
      IN  SetupReturn(allInstalled, NoErr,
                      [acc.status EXCEPT !.installedExtensions = verified,
                                         !.extensionsReady = allInstalled,
                                         !.lastError = IF allInstalled THEN EmptyText ELSE @],
                      acc.installed,
                      Append(acc.ops, Op("SELECT extname", "verify")))

\* setupDatabaseExtensions leaving last-error as it was when nothing is
\* missing: a variant
SetupInstall_KeepLastError(database, dbURL, p, sec, status, installedExtensions, ops) ==
    IF Len(MissingExtensions(RequiredExtensions, installedExtensions)) = 0
    THEN SetupReturn(TRUE, NoErr,
                     [status EXCEPT !.installedExtensions = installedExtensions,
                                    !.extensionsReady = TRUE],
                     p.installed, ops)
    ELSE SetupVerify(p,
             InstallMissing(MissingExtensions(RequiredExtensions, installedExtensions),
                 database, dbURL, p, sec,
                 [status |-> [status EXCEPT !.installedExtensions = installedExtensions],
                  installed |-> p.installed, ops |-> ops,
                  returned |-> FALSE, ready |-> FALSE, err |-> NoErr]))

\* setupDatabaseExtensions once the first catalog query has answered
\* (lines 281-348); status is the in-memory status so far
SetupInstall(database, dbURL, p, sec, status, installedExtensions, ops) ==
    IF Len(MissingExtensions(RequiredExtensions, installedExtensions)) = 0
    THEN SetupReturn(TRUE, NoErr,
                     [status EXCEPT !.installedExtensions = installedExtensions,
                                    !.extensionsReady = TRUE, !.lastError = EmptyText],
                     p.installed, ops)
    ELSE SetupVerify(p,
             InstallMissing(MissingExtensions(RequiredExtensions, installedExtensions),
                 database, dbURL, p, sec,
                 [status |-> [status EXCEPT !.installedExtensions = installedExtensions],
                  installed |-> p.installed, ops |-> ops,
                  returned |-> FALSE, ready |-> FALSE, err |-> NoErr]))

\* the in-memory status once the ping has answered (lines 270-271)
Connected(status) ==
    [status EXCEPT !.connectionStatus = "Connected",
                   !.requiredExtensions = RequiredExtensions]

\* setupDatabaseExtensions (lines 244-390)
SetupDatabaseExtensions(database, dbURL, p, sec) ==
    IF p.conn = "open failed"
    THEN SetupReturn(FALSE, "failed to open database connection",
             [database.status EXCEPT !.connectionStatus = "Failed",
                                     !.lastError = <<"Failed to connect: %v", p.conn>>],
             p.installed, <<Op("sql.Open", "")>>)
    ELSE IF p.conn = "unreachable"
    THEN SetupReturn(FALSE, "database unreachable",
             [database.status EXCEPT !.connectionStatus = "Unreachable",
                                     !.lastError = <<"Database unreachable: %v", p.conn>>],
             p.installed, <<Op("sql.Open", ""), Op("Ping", "")>>)
    ELSE IF p.query = "first"
    THEN SetupReturn(FALSE, "failed to query extensions",
             [Connected(database.status) EXCEPT
                  !.lastError = <<"Failed to query extensions: %v", p.query>>],
             p.installed,
             <<Op("sql.Open", ""), Op("Ping", ""), Op("SELECT extname", "")>>)
    ELSE SetupInstall(database, dbURL, p, sec, Connected(database.status),
             QueryExtensions(p.installed),
             <<Op("sql.Open", ""), Op("Ping", ""), Op("SELECT extname", "")>>)

\* a resource of another database type skips the step (line 78)
SetupSkipped(database, p) ==
    SetupReturn(TRUE, NoErr, database.status, p.installed, << >>)

----------------------------------------------------------------------------
(* ConfigAggregator.  A ConfigMap is [exists, data, labels, annotations,   *)
(* version]; data, labels and annotations are maps (functions of their     *)
(* keys), version is the resourceVersion the control plane compares on     *)
(* Update.                                                                 *)

EmptyMap == [k \in {} |-> ""]
AbsentConfigMap ==
    [exists |-> FALSE, data |-> EmptyMap, labels |-> EmptyMap,
     annotations |-> EmptyMap, version |-> 0]

\* r.List(ctx, databaseList, client.InNamespace(namespace))
DatabaseList(all, namespace) ==
    LET ids == SelectSeq(ListOrder,
                   LAMBDA d : all[d].exists /\ all[d].namespace = namespace)
    IN  [i \in DOMAIN ids |-> all[ids[i]]]

Entry(db, url) == [name |-> db.spec.name, url |-> url]

\* the loop without the test of db.Spec.Enabled: a variant
RECURSIVE AggregatedConfig_IgnoreEnabled(_, _, _, _)
AggregatedConfig_IgnoreEnabled(items, database, dbURL, sec) ==
    IF items = << >> THEN << >>
    ELSE LET db == Head(items)
             r == IF db.name = database.name THEN [url |-> dbURL, err |-> NoErr]
                  ELSE GetDatabaseURL(db, sec)
             rest == AggregatedConfig_IgnoreEnabled(Tail(items), database, dbURL, sec)
         IN  IF r.err # NoErr THEN rest ELSE <<Entry(db, r.url)>> \o rest

\* the loop keeping the resource whose URL does not resolve: a variant
RECURSIVE AggregatedConfig_KeepUnresolved(_, _, _, _)
AggregatedConfig_KeepUnresolved(items, database, dbURL, sec) ==
    IF items = << >> THEN << >>
    ELSE LET db == Head(items)
             r == IF db.name = database.name THEN [url |-> dbURL, err |-> NoErr]
                  ELSE GetDatabaseURL(db, sec)
             rest == AggregatedConfig_KeepUnresolved(Tail(items), database, dbURL, sec)
         IN  IF db.spec.enabled THEN <<Entry(db, r.url)>> \o rest ELSE rest

\* the loop of reconcileConfigMap over databaseList.Items (lines 406-426)
RECURSIVE AggregatedConfig(_, _, _, _)
AggregatedConfig(items, database, dbURL, sec) ==
    IF items = << >> THEN << >>
    ELSE LET db == Head(items)
             r == IF db.name = database.name THEN [url |-> dbURL, err |-> NoErr]
                  ELSE GetDatabaseURL(db, sec)
             rest == AggregatedConfig(Tail(items), database, dbURL, sec)
         IN  IF r.err # NoErr THEN rest
             ELSE IF db.spec.enabled THEN <<Entry(db, r.url)>> \o rest
             ELSE rest

\* the annotation reconcileConfigMap sets (line 438)
DatabaseCount(items, aggregatedConfig) == Itoa(Len(items))

\* the ConfigMap object reconcileConfigMap builds (lines 428-444)
DesiredConfigMap(items, aggregatedConfig) ==
    [data |-> (DataKey :> aggregatedConfig),
     labels |-> ManagedLabels,
     annotations |-> (CountKey :> DatabaseCount(items, aggregatedConfig))]

\* an Update that gives the object a new resourceVersion even when nothing
\* changes: a variant
Stored_AlwaysBump(cur, new) == [new EXCEPT !.version = cur.version + 1]

\* an Update the control plane accepts: the stored object gets a new
\* resourceVersion unless the update changes nothing
Stored(cur, new) ==
    IF [new EXCEPT !.version = cur.version] = cur THEN cur
    ELSE [new EXCEPT !.version = cur.version + 1]

\* r.Get of the ConfigMap: what the caller holds afterwards
GetConfigMap(cur) == cur

\* a write that updates the object when its Create finds one in place: a
\* variant the properties must tell from the code
WriteConfigMap_CreateOrUpdate(cur, found, desired) ==
    IF ~cur.exists
    THEN IF found.exists
         THEN [cm |-> cur, err |-> "not found", op |-> "Update ConfigMap"]
         ELSE [cm |-> [exists |-> TRUE, data |-> desired.data,
                       labels |-> desired.labels,
                       annotations |-> desired.annotations,
                       version |-> cur.version + 1],
               err |-> NoErr, op |-> "Create ConfigMap"]
    ELSE IF found.exists /\ cur.version # found.version
         THEN [cm |-> cur, err |-> "conflict", op |-> "Update ConfigMap"]
         ELSE [cm |-> Stored(cur, [cur EXCEPT !.data = desired.data,
                                              !.labels = desired.labels,
                                              !.annotations = desired.annotations]),
               err |-> NoErr, op |-> "Update ConfigMap"]

\* Create when Get found nothing, else Update of the object Get returned
\* with data, labels and annotations replaced (lines 449-467); the control
\* plane rejects a Create of an existing object and an Update whose
\* resourceVersion is not the stored one
WriteConfigMap(cur, found, desired) ==
    IF ~found.exists
    THEN IF cur.exists
         THEN [cm |-> cur, err |-> "already exists", op |-> "Create ConfigMap"]
         ELSE [cm |-> [exists |-> TRUE, data |-> desired.data,
                       labels |-> desired.labels,
                       annotations |-> desired.annotations,
                       version |-> cur.version + 1],
               err |-> NoErr, op |-> "Create ConfigMap"]
    ELSE IF ~cur.exists
         THEN [cm |-> cur, err |-> "not found", op |-> "Update ConfigMap"]
         ELSE IF cur.version # found.version
         THEN [cm |-> cur, err |-> "conflict", op |-> "Update ConfigMap"]
         ELSE [cm |-> Stored(cur, [found EXCEPT !.data = desired.data,
                                                !.labels = desired.labels,
                                                !.annotations = desired.annotations]),
               err |-> NoErr, op |-> "Update ConfigMap"]

\* the loop without the test of excludeDB: a variant
RECURSIVE RebuildConfig_NoExclude(_, _, _)
RebuildConfig_NoExclude(items, excludeDB, sec) ==
    IF items = << >> THEN [config |-> << >>, count |-> 0]
    ELSE LET db == Head(items)
             r == GetDatabaseURL(db, sec)
             rest == RebuildConfig_NoExclude(Tail(items), excludeDB, sec)
         IN  IF r.err # NoErr THEN rest
             ELSE IF db.spec.enabled
             THEN [config |-> <<Entry(db, r.url)>> \o rest.config,
                   count |-> rest.count + 1]
             ELSE rest

\* the loop of rebuildAggregatedConfigMap (lines 577-595): payload and count
RECURSIVE RebuildConfig(_, _, _)
RebuildConfig(items, excludeDB, sec) ==
    IF items = << >> THEN [config |-> << >>, count |-> 0]
    ELSE LET db == Head(items)
             r == GetDatabaseURL(db, sec)
             rest == RebuildConfig(Tail(items), excludeDB, sec)
         IN  IF db.name = excludeDB THEN rest
             ELSE IF r.err # NoErr THEN rest
             ELSE IF db.spec.enabled
             THEN [config |-> <<Entry(db, r.url)>> \o rest.config,
                   count |-> rest.count + 1]
             ELSE rest

\* a map read back from the control plane with no entries is a nil map, and
\* an assignment into a nil map panics (lines 609-610)
IsNilMap(m) == DOMAIN m = {}

\* the ConfigMap rebuildAggregatedConfigMap sends (lines 608-613)
RebuiltConfigMap(found, rebuilt) ==
    [found EXCEPT !.data = (DataKey :> rebuilt.config) @@ @,
                  !.annotations = (CountKey :> Itoa(rebuilt.count)) @@ @]

----------------------------------------------------------------------------
(* Reconciler *)

\* updateStatus scheduling nothing after phase Error: a variant
RequeueAfter_NoErrorRetry(phase) ==
    CASE phase = "Ready" -> 300
      [] phase = "Configuring" -> 30
      [] OTHER -> 0

\* updateStatus scheduling nothing after phase Ready: a variant
RequeueAfter_NoReadyRetry(phase) ==
    CASE phase = "Configuring" -> 30
      [] phase = "Error" -> 60
      [] OTHER -> 0

\* the interval updateStatus returns for the phase it wrote, in seconds
RequeueAfter(phase) ==
    CASE phase = "Ready" -> 300
      [] phase = "Configuring" -> 30
      [] phase = "Error" -> 60
      [] OTHER -> 0

\* the condition updateStatus builds (lines 497-507)
ReadyCondition(phase, message) ==
    [type |-> "Ready",
     status |-> IF phase = "Error" \/ phase = "Configuring" THEN "False" ELSE "True",
     reason |-> phase, message |-> message]

\* update or append that always appends: a variant
SetCondition_AlwaysAppend(conditions, condition) == Append(conditions, condition)

\* update or append (lines 510-520)
SetCondition(conditions, condition) ==
    IF \E i \in DOMAIN conditions : conditions[i].type = "Ready"
    THEN [conditions EXCEPT
             ![CHOOSE i \in DOMAIN conditions :
                   /\ conditions[i].type = "Ready"
                   /\ \A j \in 1..(i - 1) : conditions[j].type # "Ready"] = condition]
    ELSE Append(conditions, condition)

\* updateStatus leaving a resource in phase Error once it is there: a variant
UpdateStatusFields_StickyError(status, phase, message, configMapRef, extensionsReady) ==
    [status EXCEPT !.phase = IF @ = "Error" THEN @ ELSE phase, !.message = message,
                   !.configMapRef = configMapRef,
                   !.extensionsReady = extensionsReady,
                   !.conditions = SetCondition(@, ReadyCondition(
                                      IF status.phase = "Error" THEN "Error" ELSE phase,
                                      message))]

\* the in-memory status updateStatus builds (lines 490-520)
UpdateStatusFields(status, phase, message, configMapRef, extensionsReady) ==
    [status EXCEPT !.phase = phase, !.message = message,
                   !.configMapRef = configMapRef,
                   !.extensionsReady = extensionsReady,
                   !.conditions = SetCondition(@, ReadyCondition(phase, message))]

\* what one invocation leaves: the stored resource, the server's catalog, the
\* ConfigMap, the calls made, and the (ctrl.Result, error) returned
Result(obj, installed, cmv, ops, requeueAfter, err) ==
    [obj |-> obj, installed |-> installed, cm |-> cmv, ops |-> ops,
     requeueAfter |-> requeueAfter, err |-> err]

\* updateStatus (lines 489-539): stored is the resource as the control plane
\* holds it, status the in-memory status of the object
UpdateStatus(stored, status, phase, message, configMapRef, extensionsReady, fault, installed, cmv, ops) ==
    IF fault = "Update Status"
    THEN Result(stored, installed, cmv, Append(ops, Op("Update Status", stored.name)),
                0, "status update failed")
    ELSE Result([stored EXCEPT !.status = UpdateStatusFields(status, phase, message,
                                              configMapRef, extensionsReady)],
                installed, cmv, Append(ops, Op("Update Status", stored.name)),
                RequeueAfter(phase), NoErr)

\* reconcileConfigMap returning no name: a variant
Upserted_NoRef(w, ops) ==
    [ref |-> "", err |-> w.err, cm |-> w.cm, ops |-> Append(ops, Op(w.op, configMapName))]

\* what reconcileConfigMap returns after its write w (lines 449-469)
Upserted(w, ops) ==
    [ref |-> IF w.err = NoErr THEN configMapName ELSE "", err |-> w.err,
     cm |-> w.cm, ops |-> Append(ops, Op(w.op, configMapName))]

\* a write the control plane rejects
Rejected(cur, found) ==
    [cm |-> cur, err |-> "write rejected",
     op |-> IF found.exists THEN "Update ConfigMap" ELSE "Create ConfigMap"]

\* reconcileConfigMap (lines 393-470) run without interruption
ReconcileConfigMap(database, dbURL, fault, all, sec, cur) ==
    IF fault = "List Databases"
    THEN [ref |-> "", err |-> "failed to list databases", cm |-> cur,
          ops |-> <<Op("List Databases", database.namespace)>>]
    ELSE IF fault = "Get ConfigMap"
    THEN [ref |-> "", err |-> "get failed", cm |-> cur,
          ops |-> <<Op("List Databases", database.namespace),
                    Op("Get ConfigMap", configMapName)>>]
    ELSE Upserted(
             IF fault = "Write ConfigMap" THEN Rejected(cur, GetConfigMap(cur))
             ELSE WriteConfigMap(cur, GetConfigMap(cur),
                      DesiredConfigMap(DatabaseList(all, database.namespace),
                          AggregatedConfig(DatabaseList(all, database.namespace),
                                           database, dbURL, sec))),
             <<Op("List Databases", database.namespace),
               Op("Get ConfigMap", configMapName)>>)

\* what rebuildAggregatedConfigMap leaves
Rebuilt(err, cmv, ops, panicked) ==
    [err |-> err, cm |-> cmv, ops |-> ops, panicked |-> panicked]

\* rebuildAggregatedConfigMap that creates the artifact it does not find: a
\* variant
RebuildAggregatedConfigMap_Creates(namespace, excludeDB, fault, all, sec, cur) ==
    IF ~GetConfigMap(cur).exists
    THEN Rebuilt(NoErr,
                 [exists |-> TRUE,
                  data |-> (DataKey :> RebuildConfig(DatabaseList(all, namespace),
                                                     excludeDB, sec).config),
                  labels |-> ManagedLabels, annotations |-> (CountKey :> "0"),
                  version |-> cur.version + 1],
                 <<Op("List Databases", namespace), Op("Get ConfigMap", configMapName),
                   Op("Create ConfigMap", configMapName)>>, FALSE)
    ELSE Rebuilt(NoErr,
                 Stored(cur, RebuiltConfigMap(GetConfigMap(cur),
                            RebuildConfig(DatabaseList(all, namespace), excludeDB, sec))),
                 <<Op("List Databases", namespace), Op("Get ConfigMap", configMapName),
                   Op("Update ConfigMap", configMapName)>>, FALSE)

\* rebuildAggregatedConfigMap that deletes the artifact once no entry is
\* left: a variant
RebuildAggregatedConfigMap_DeletesEmpty(namespace, excludeDB, fault, all, sec, cur) ==
    IF ~GetConfigMap(cur).exists
    THEN Rebuilt(NoErr, cur,
                 <<Op("List Databases", namespace), Op("Get ConfigMap", configMapName)>>,
                 FALSE)
    ELSE IF RebuildConfig(DatabaseList(all, namespace), excludeDB, sec).count = 0
    THEN Rebuilt(NoErr, [AbsentConfigMap EXCEPT !.version = cur.version],
                 <<Op("List Databases", namespace), Op("Get ConfigMap", configMapName),
                   Op("Delete ConfigMap", configMapName)>>, FALSE)
    ELSE Rebuilt(NoErr,
                 Stored(cur, RebuiltConfigMap(GetConfigMap(cur),
                            RebuildConfig(DatabaseList(all, namespace), excludeDB, sec))),
                 <<Op("List Databases", namespace), Op("Get ConfigMap", configMapName),
                   Op("Update ConfigMap", configMapName)>>, FALSE)

\* rebuildAggregatedConfigMap (lines 566-614) run without interruption
RebuildAggregatedConfigMap(namespace, excludeDB, fault, all, sec, cur) ==
    IF fault = "List Databases"
    THEN Rebuilt("failed to list databases", cur,
                 <<Op("List Databases", namespace)>>, FALSE)
    ELSE IF fault = "Get ConfigMap"
    THEN Rebuilt("get failed", cur,
                 <<Op("List Databases", namespace), Op("Get ConfigMap", configMapName)>>,
                 FALSE)
    ELSE IF ~GetConfigMap(cur).exists
    THEN Rebuilt(NoErr, cur,
                 <<Op("List Databases", namespace), Op("Get ConfigMap", configMapName)>>,
                 FALSE)
    ELSE IF IsNilMap(GetConfigMap(cur).data) \/ IsNilMap(GetConfigMap(cur).annotations)
    THEN Rebuilt("panic", cur,
                 <<Op("List Databases", namespace), Op("Get ConfigMap", configMapName)>>,
                 TRUE)
    ELSE IF fault = "Write ConfigMap"
    THEN Rebuilt("write rejected", cur,
                 <<Op("List Databases", namespace), Op("Get ConfigMap", configMapName),
                   Op("Update ConfigMap", configMapName)>>, FALSE)
    ELSE Rebuilt(NoErr,
                 Stored(cur, RebuiltConfigMap(GetConfigMap(cur),
                            RebuildConfig(DatabaseList(all, namespace), excludeDB, sec))),
                 <<Op("List Databases", namespace), Op("Get ConfigMap", configMapName),
                   Op("Update ConfigMap", configMapName)>>, FALSE)

\* handleDeletion after the rebuild rb (lines 550-562)
RemoveFinalizer(database, fault, p, cur, rb, ops) ==
    IF rb.panicked
    THEN Result(database, p.installed, cur, ops \o rb.ops, 0, "panic")
    ELSE IF fault = "Update Database"
    THEN Result(database, p.installed, rb.cm,
                Append(ops \o rb.ops, Op("Update Database", database.name)),
                0, "update failed")
    ELSE Result([database EXCEPT !.finalizer = FALSE], p.installed, rb.cm,
                Append(ops \o rb.ops, Op("Update Database", database.name)),
                0, NoErr)

\* handleDeletion without the test of the finalizer: a variant
HandleDeletion_NoTest(database, fault, all, sec, p, cur, ops) ==
    RemoveFinalizer(database, fault, p, cur,
        RebuildAggregatedConfigMap(database.namespace, database.name, fault,
                                   all, sec, cur),
        ops)

\* handleDeletion (lines 542-563)
HandleDeletion(database, fault, all, sec, p, cur, ops) ==
    IF ~database.finalizer
    THEN Result(database, p.installed, cur, ops, 0, NoErr)
    ELSE RemoveFinalizer(database, fault, p, cur,
             RebuildAggregatedConfigMap(database.namespace, database.name, fault,
                                        all, sec, cur),
             ops)

\* Reconcile leaving the reference in place when the upsert failed: a variant
ReconcileAggregated_ErrorKeepsRef(stored, status, fault, installed, c, ops) ==
    IF c.err # NoErr
    THEN UpdateStatus(stored, status, "Error",
                      <<"Failed to reconcile ConfigMap: %v", c.err>>, configMapName,
                      status.extensionsReady, fault, installed, c.cm, ops \o c.ops)
    ELSE UpdateStatus(stored, status, "Ready",
                      <<"Database configuration synchronized">>, c.ref,
                      TRUE, fault, installed, c.cm, ops \o c.ops)

\* Reconcile once reconcileConfigMap has returned c (lines 91-98); stored is
\* the resource as the control plane holds it, status the in-memory status
ReconcileAggregated(stored, status, fault, installed, c, ops) ==
    IF c.err # NoErr
    THEN UpdateStatus(stored, status, "Error",
                      <<"Failed to reconcile ConfigMap: %v", c.err>>, "",
                      status.extensionsReady, fault, installed, c.cm, ops \o c.ops)
    ELSE UpdateStatus(stored, status, "Ready",
                      <<"Database configuration synchronized">>, c.ref,
                      TRUE, fault, installed, c.cm, ops \o c.ops)

\* Reconcile going on to reconcileConfigMap whatever ready is: a variant
ReconcileProvisioned_IgnoreReady(stored, dbURL, fault, all, sec, cur, s, ops) ==
    IF s.err # NoErr
    THEN UpdateStatus(stored, s.status, "Configuring",
                      <<"Setting up database extensions: %v", s.err>>, "", FALSE,
                      fault, s.installed, cur, ops \o s.ops)
    ELSE ReconcileAggregated(stored, s.status, fault, s.installed,
             ReconcileConfigMap([stored EXCEPT !.status = s.status], dbURL, fault,
                                all, sec, cur),
             ops \o s.ops)

\* Reconcile writing phase Error on an error of the extension step: a variant
ReconcileProvisioned_ErrIsError(stored, dbURL, fault, all, sec, cur, s, ops) ==
    IF s.err # NoErr
    THEN UpdateStatus(stored, s.status, "Error",
                      <<"Setting up database extensions: %v", s.err>>, "", FALSE,
                      fault, s.installed, cur, ops \o s.ops)
    ELSE IF ~s.ready
    THEN UpdateStatus(stored, s.status, "Configuring",
                      <<"Setting up required database extensions">>, "", FALSE,
                      fault, s.installed, cur, ops \o s.ops)
    ELSE ReconcileAggregated(stored, s.status, fault, s.installed,
             ReconcileConfigMap([stored EXCEPT !.status = s.status], dbURL, fault,
                                all, sec, cur),
             ops \o s.ops)

\* Reconcile once setupDatabaseExtensions has returned s, or was skipped
\* (lines 80-98)
ReconcileProvisioned(stored, dbURL, fault, all, sec, cur, s, ops) ==
    IF s.err # NoErr
    THEN UpdateStatus(stored, s.status, "Configuring",
                      <<"Setting up database extensions: %v", s.err>>, "", FALSE,
                      fault, s.installed, cur, ops \o s.ops)
    ELSE IF ~s.ready
    THEN UpdateStatus(stored, s.status, "Configuring",
                      <<"Setting up required database extensions">>, "", FALSE,
                      fault, s.installed, cur, ops \o s.ops)
    ELSE ReconcileAggregated(stored, s.status, fault, s.installed,
             ReconcileConfigMap([stored EXCEPT !.status = s.status], dbURL, fault,
                                all, sec, cur),
             ops \o s.ops)

\* Reconcile going on with the URL it got whatever err is: a variant
ReconcileResolved_IgnoreErr(stored, u, fault, all, sec, p, cur, ops) ==
    ReconcileProvisioned(stored, u.url, fault, all, sec, cur,
        IF stored.spec.databaseType = "postgresql" \/ stored.spec.databaseType = ""
        THEN SetupDatabaseExtensions(stored, u.url, p, sec)
        ELSE SetupSkipped(stored, p),
        ops)

\* Reconcile running the extension step whatever the database type: a variant
ReconcileResolved_AlwaysSetup(stored, u, fault, all, sec, p, cur, ops) ==
    IF u.err # NoErr
    THEN UpdateStatus(stored, stored.status, "Error",
                      <<"Failed to get database URL: %v", u.err>>, "", FALSE,
                      fault, p.installed, cur, ops)
    ELSE ReconcileProvisioned(stored, u.url, fault, all, sec, cur,
             SetupDatabaseExtensions(stored, u.url, p, sec), ops)

\* Reconcile once getDatabaseURL has returned u (lines 73-98)
ReconcileResolved(stored, u, fault, all, sec, p, cur, ops) ==
    IF u.err # NoErr
    THEN UpdateStatus(stored, stored.status, "Error",
                      <<"Failed to get database URL: %v", u.err>>, "", FALSE,
                      fault, p.installed, cur, ops)
    ELSE ReconcileProvisioned(stored, u.url, fault, all, sec, cur,
             IF stored.spec.databaseType = "postgresql" \/ stored.spec.databaseType = ""
             THEN SetupDatabaseExtensions(stored, u.url, p, sec)
             ELSE SetupSkipped(stored, p),
             ops)

\* the calls of lines 64-72: the Update that adds the finalizer, the Get of
\* the secret the URL comes from
PrepareOps(database) ==
    (IF database.finalizer THEN << >> ELSE <<Op("Update Database", database.name)>>)
    \o (IF database.spec.urlFromSecret.set
        THEN <<Op("Get Secret", database.spec.urlFromSecret.name)>> ELSE << >>)

\* Reconcile going on when the Update that adds the finalizer fails: a variant
ReconcileLive_IgnoreUpdateErr(database, fault, all, sec, p, cur, ops) ==
    ReconcileResolved(database, GetDatabaseURL(database, sec), fault, all, sec, p, cur,
        ops \o PrepareOps(database))

\* Reconcile for a resource that exists and is not being deleted (lines 63-98)
ReconcileLive(database, fault, all, sec, p, cur, ops) ==
    IF ~database.finalizer /\ fault = "Update Database"
    THEN Result(database, p.installed, cur,
                Append(ops, Op("Update Database", database.name)), 0, "update failed")
    ELSE ReconcileResolved([database EXCEPT !.finalizer = TRUE],
             GetDatabaseURL(database, sec), fault, all, sec, p, cur,
             ops \o PrepareOps(database))

\* Reconcile returning the error of a Get that finds nothing: a variant
ReconcileResult_NotFoundIsError(d, fault, all, sec, p, cur) ==
    IF fault = "Get Database" \/ ~all[d].exists
    THEN Result(all[d], p.installed, cur, <<Op("Get Database", d)>>, 0, "get failed")
    ELSE IF all[d].deleting
    THEN HandleDeletion(all[d], fault, all, sec, p, cur, <<Op("Get Database", d)>>)
    ELSE ReconcileLive(all[d], fault, all, sec, p, cur, <<Op("Get Database", d)>>)

\* Reconcile (lines 43-98), one whole invocation
ReconcileResult(d, fault, all, sec, p, cur) ==
    IF fault = "Get Database"
    THEN Result(all[d], p.installed, cur, <<Op("Get Database", d)>>, 0, "get failed")
    ELSE IF ~all[d].exists
    THEN Result(all[d], p.installed, cur, <<Op("Get Database", d)>>, 0, NoErr)
    ELSE IF all[d].deleting
    THEN HandleDeletion(all[d], fault, all, sec, p, cur, <<Op("Get Database", d)>>)
    ELSE ReconcileLive(all[d], fault, all, sec, p, cur, <<Op("Get Database", d)>>)

----------------------------------------------------------------------------
(* The states the controller starts in *)

MaxVersion == 4

HostOf == [d \in Dbs |-> IF d = "d1" THEN "h1" ELSE "h2"]

MkSpec(name, urlFromSecret, superuserUrl, superuserUrlFromSecret, databaseType, enabled) ==
    [name |-> name, url |-> UrlApp, urlFromSecret |-> urlFromSecret,
     superuserUrl |-> superuserUrl,
     superuserUrlFromSecret |-> superuserUrlFromSecret,
     databaseType |-> databaseType, enabled |-> enabled]

\* a resource as its creation leaves it; each resource names a host of its own
MkDb(d, spec) ==
    [exists |-> TRUE, name |-> d, namespace |-> DbNamespace[d],
     deleting |-> FALSE, finalizer |-> FALSE,
     spec |-> [spec EXCEPT !.url = SubSeq(UrlApp, 1, 5) \o <<HostOf[d]>>],
     status |-> EmptyStatus]

\* the slot of a resource that does not exist
Gone(d) ==
    [MkDb(d, MkSpec("", NoRef, EmptyText, NoRef, "", FALSE)) EXCEPT !.exists = FALSE]

UrlRef == SecretRef("db-url", "url", "")
SuRef == SecretRef("db-su", "url", "")

HealthyPg ==
    [conn |-> "ok", query |-> "ok", create |-> "ok", super |-> "ok",
     installed |-> {"plpgsql", "pg_stat_statements"}]

\* the servers a resource may face; fields no run reads are left at "ok"
PgStates ==
    {[HealthyPg EXCEPT !.conn = c] : c \in {"open failed", "unreachable"}}
    \cup {HealthyPg, [HealthyPg EXCEPT !.query = "first"]}
    \cup {[HealthyPg EXCEPT !.installed = {"plpgsql"}, !.create = c, !.query = q] :
            c \in {"ok"}, q \in {"ok", "second"}}
    \cup {[HealthyPg EXCEPT !.installed = {"plpgsql"}, !.create = "other"]}
    \cup {[HealthyPg EXCEPT !.installed = {"plpgsql"}, !.create = c, !.super = su] :
            c \in {"permission denied", "must be superuser"},
            su \in {"ok", "unreachable", "create failed"}}
    \cup {[HealthyPg EXCEPT !.installed = {"plpgsql"}, !.create = c, !.query = "second"] :
            c \in {"permission denied", "must be superuser"}}

\* a ConfigMap left by an earlier run: an entry of a resource that is gone,
\* and a data key the controller never writes
StaleConfigMap ==
    [exists |-> TRUE,
     data |-> (DataKey :> <<[name |-> "old", url |-> UrlApp]>>) @@ ("notes" :> << >>),
     labels |-> ManagedLabels, annotations |-> (CountKey :> "1"), version |-> 1]

\* a worker between invocations; during one it holds the invocation's locals
Idle ==
    [pc |-> "idle", dbURL |-> EmptyText, status |-> EmptyStatus,
     desired |-> DesiredConfigMap(<< >>, << >>), found |-> AbsentConfigMap,
     ops |-> << >>]

\* several resources of one namespace, their servers in order
InitAggregation ==
    \E ref1 \in {NoRef, UrlRef}, en1 \in BOOLEAN, ty1 \in {"postgresql", "mysql"},
       has2 \in BOOLEAN, name2 \in {"prod", "stage"}, ref2 \in {NoRef, UrlRef},
       en2 \in BOOLEAN, ty2 \in {"mysql"},
       sec \in {NoSecret, EmptySecret, SecretWith("url", UrlSec)} :
        /\ has2 \/ (name2 = "stage" /\ ref2 = NoRef /\ en2 /\ ty2 = "mysql")
        /\ (ref1 = UrlRef \/ (has2 /\ ref2 = UrlRef)) \/ sec = NoSecret
        /\ dbs = [d \in Dbs |->
                    IF d = "d1" THEN MkDb(d, MkSpec("prod", ref1, EmptyText, NoRef, ty1, en1))
                    ELSE IF has2 THEN MkDb(d, MkSpec(name2, ref2, EmptyText, NoRef, ty2, en2))
                    ELSE Gone(d)]
        /\ secrets = [id \in SecretIds |-> IF id = UrlSecretId THEN sec ELSE NoSecret]
        /\ pg = [d \in Dbs |-> HealthyPg]

\* one resource and every server it may face
InitProvisioning ==
    \E ref1 \in {NoRef, UrlRef}, ty1 \in {"postgresql", ""},
       su \in {<<EmptyText, NoRef>>, <<UrlSuper, NoRef>>, <<EmptyText, SuRef>>},
       p \in PgStates,
       sec \in {NoSecret, EmptySecret, SecretWith("url", UrlSec)},
       susec \in {NoSecret, SecretWith("url", UrlSuper)} :
        /\ ref1 = UrlRef \/ sec = NoSecret
        /\ su[2] = SuRef \/ susec = NoSecret
        /\ dbs = [d \in Dbs |->
                    IF d = "d1" THEN MkDb(d, MkSpec("prod", ref1, su[1], su[2], ty1, TRUE))
                    ELSE Gone(d)]
        /\ secrets = [id \in SecretIds |-> IF id = UrlSecretId THEN sec ELSE susec]
        /\ pg = [d \in Dbs |-> IF d = "d1" THEN p ELSE HealthyPg]

NoCall ==
    [db |-> "", ops |-> << >>, requeueAfter |-> 0, err |-> NoErr, before |-> ""]

InitRest ==
    /\ cm \in [Namespaces -> {AbsentConfigMap, StaleConfigMap}]
    /\ wk = [d \in Dbs |-> Idle]
    /\ lastCall = NoCall

----------------------------------------------------------------------------
(* Specifications that run each Reconcile invocation without interruption *)

\* the API calls an invocation may see fail for a reason of the control plane
Faults ==
    {"none", "Get Database", "Update Database", "List Databases", "Get ConfigMap",
     "Write ConfigMap", "Update Status"}

\* the effects of an invocation that would write its ConfigMap to every
\* namespace: a variant the properties must tell from the code
Commit_EveryNamespace(d, r) ==
    /\ r.cm.version <= MaxVersion
    /\ dbs' = [dbs EXCEPT ![d] = r.obj]
    /\ pg' = [pg EXCEPT ![d].installed = r.installed]
    /\ cm' = [ns \in DOMAIN cm |-> r.cm]
    /\ lastCall' = [db |-> d, ops |-> r.ops, requeueAfter |-> r.requeueAfter,
                    err |-> r.err, before |-> dbs[d].status.phase]
    /\ UNCHANGED secrets

\* the effects of an invocation with result r
Commit(d, r) ==
    /\ r.cm.version <= MaxVersion
    /\ dbs' = [dbs EXCEPT ![d] = r.obj]
    /\ pg' = [pg EXCEPT ![d].installed = r.installed]
    /\ cm' = [cm EXCEPT ![dbs[d].namespace] = r.cm]
    /\ lastCall' = [db |-> d, ops |-> r.ops, requeueAfter |-> r.requeueAfter,
                    err |-> r.err, before |-> dbs[d].status.phase]
    /\ UNCHANGED secrets

\* one invocation for resource d in which the call named by fault, if made, fails
Invoke(d, fault) ==
    /\ wk[d].pc = "idle"
    /\ Commit(d, ReconcileResult(d, fault, dbs, secrets, pg[d], cm[dbs[d].namespace]))
    /\ UNCHANGED wk

\* an invocation in which every call of the control plane is served
Reconcile(d) == Invoke(d, "none")

\* an operator supplies the superuser URL of a resource that has none
SupplySuperuserURL(d) ==
    /\ dbs[d].exists /\ ~dbs[d].deleting
    /\ dbs[d].spec.superuserUrl = EmptyText /\ ~dbs[d].spec.superuserUrlFromSecret.set
    /\ dbs' = [dbs EXCEPT ![d].spec.superuserUrl = UrlSuper]
    /\ lastCall' = NoCall
    /\ UNCHANGED <<secrets, pg, cm, wk>>

\* a delete request: the control plane marks a resource that carries a
\* finalizer and erases one that carries none
DeleteDatabase(d) ==
    /\ dbs[d].exists /\ ~dbs[d].deleting
    /\ dbs' = [dbs EXCEPT ![d] = IF @.finalizer THEN [@ EXCEPT !.deleting = TRUE]
                                 ELSE Gone(d)]
    /\ lastCall' = NoCall
    /\ UNCHANGED <<secrets, pg, cm, wk>>

\* the control plane erases a marked resource whose finalizer is cleared
EraseDatabase(d) ==
    /\ dbs[d].exists /\ dbs[d].deleting /\ ~dbs[d].finalizer
    /\ dbs' = [dbs EXCEPT ![d] = Gone(d)]
    /\ lastCall' = NoCall
    /\ UNCHANGED <<secrets, pg, cm, wk>>

\* Spec: the resources of one namespace and their shared ConfigMap
Init == InitAggregation /\ InitRest

Next ==
    \E d \in Dbs :
        \/ Reconcile(d)
        \/ DeleteDatabase(d)
        \/ EraseDatabase(d)

Spec == Init /\ [][Next]_vars

\* SpecProv: one resource and the server it provisions
InitProv == InitProvisioning /\ InitRest

NextProv ==
    \/ Reconcile("d1")
    \/ SupplySuperuserURL("d1")

SpecProv == InitProv /\ [][NextProv]_vars

----------------------------------------------------------------------------
(* SpecConc: invocations for different resources that overlap.  Each call  *)
(* of reconcileConfigMap to the control plane is a step of its own.        *)

\* Reconcile up to the call of reconcileConfigMap (lines 43-88): whether the
\* invocation gets that far, and what it holds when it does
Prepared(database, sec, p, u, s) ==
    [upsert |-> u.err = NoErr /\ s.err = NoErr /\ s.ready,
     dbURL |-> u.url, status |-> s.status, installed |-> s.installed,
     ops |-> <<Op("Get Database", database.name)>> \o PrepareOps(database) \o s.ops]

Prepare(database, sec, p) ==
    Prepared(database, sec, p, GetDatabaseURL(database, sec),
        IF GetDatabaseURL(database, sec).err # NoErr THEN SetupSkipped(database, p)
        ELSE IF database.spec.databaseType = "postgresql" \/ database.spec.databaseType = ""
        THEN SetupDatabaseExtensions(database, GetDatabaseURL(database, sec).url, p, sec)
        ELSE SetupSkipped(database, p))

\* lines 43-91: the invocation ends here unless it reaches reconcileConfigMap
Begin(d, pre) ==
    IF pre.upsert
    THEN /\ dbs' = [dbs EXCEPT ![d].finalizer = TRUE]
         /\ pg' = [pg EXCEPT ![d].installed = pre.installed]
         /\ wk' = [wk EXCEPT ![d] = [Idle EXCEPT !.pc = "list", !.dbURL = pre.dbURL,
                                                 !.status = pre.status, !.ops = pre.ops]]
         /\ UNCHANGED <<secrets, cm, lastCall>>
    ELSE /\ Commit(d, ReconcileResult(d, "none", dbs, secrets, pg[d], cm[dbs[d].namespace]))
         /\ UNCHANGED wk

CStart(d) ==
    /\ wk[d].pc = "idle"
    /\ dbs[d].exists /\ ~dbs[d].deleting
    /\ Begin(d, Prepare(dbs[d], secrets, pg[d]))

\* r.List and the loop over its items (lines 399-444)
CList(d) ==
    /\ wk[d].pc = "list"
    /\ wk' = [wk EXCEPT ![d].pc = "get",
                        ![d].desired =
                            DesiredConfigMap(DatabaseList(dbs, dbs[d].namespace),
                                AggregatedConfig(DatabaseList(dbs, dbs[d].namespace),
                                                 dbs[d], wk[d].dbURL, secrets))]
    /\ UNCHANGED <<dbs, secrets, pg, cm, lastCall>>

\* r.Get of the ConfigMap (lines 447-448)
CGet(d) ==
    /\ wk[d].pc = "get"
    /\ wk' = [wk EXCEPT ![d].pc = "write",
                        ![d].found = GetConfigMap(cm[dbs[d].namespace])]
    /\ UNCHANGED <<dbs, secrets, pg, cm, lastCall>>

\* r.Create or r.Update, then the rest of Reconcile (lines 449-469, 91-98)
CWrite(d) ==
    /\ wk[d].pc = "write"
    /\ Commit(d, ReconcileAggregated(dbs[d], wk[d].status, "none", pg[d].installed,
                     Upserted(WriteConfigMap(cm[dbs[d].namespace], wk[d].found,
                                             wk[d].desired),
                              <<Op("List Databases", dbs[d].namespace),
                                Op("Get ConfigMap", configMapName)>>),
                     wk[d].ops))
    /\ wk' = [wk EXCEPT ![d] = Idle]

\* a user creates the resource
CreateDatabase(d) ==
    /\ ~dbs[d].exists
    /\ \E en \in BOOLEAN :
         dbs' = [dbs EXCEPT ![d] = MkDb(d, MkSpec("stage", NoRef, EmptyText, NoRef,
                                                 "mysql", en))]
    /\ lastCall' = NoCall
    /\ UNCHANGED <<secrets, pg, cm, wk>>

\* one resource in place, the other in place or yet to be created
InitConc ==
    /\ \E en1 \in BOOLEAN, ty1 \in {"postgresql", "mysql"}, has2 \in BOOLEAN,
          en2 \in BOOLEAN :
        /\ has2 \/ en2
        /\ dbs = [d \in Dbs |->
                    IF d = "d1" THEN MkDb(d, MkSpec("prod", NoRef, EmptyText, NoRef, ty1, en1))
                    ELSE IF has2
                    THEN MkDb(d, MkSpec("stage", NoRef, EmptyText, NoRef, "mysql", en2))
                    ELSE Gone(d)]
    /\ secrets = [id \in SecretIds |-> NoSecret]
    /\ pg = [d \in Dbs |-> HealthyPg]
    /\ InitRest

NextConc ==
    \E d \in Dbs :
        \/ CStart(d)
        \/ CList(d)
        \/ CGet(d)
        \/ CWrite(d)
        \/ CreateDatabase(d)

SpecConc == InitConc /\ [][NextConc]_vars

----------------------------------------------------------------------------
(* SpecFault: invocations in which a call to the control plane may fail,   *)
(* over artifacts of every shape the control plane may hold                *)

\* an artifact made by another actor with neither data nor annotations: the
\* maps of the object r.Get returns are nil
StrippedConfigMap ==
    [exists |-> TRUE, data |-> EmptyMap, labels |-> EmptyMap,
     annotations |-> EmptyMap, version |-> 1]

\* an invocation in which the call named by fault fails if it is made
ReconcileFaulty(d) == \E fault \in Faults \ {"none"} : Invoke(d, fault)

InitFault ==
    /\ \E ref1 \in {NoRef, UrlRef}, ty1 \in {"postgresql", "mysql"},
          p \in {HealthyPg, [HealthyPg EXCEPT !.conn = "unreachable"]} :
        /\ dbs = [d \in Dbs |->
                    IF d = "d1" THEN MkDb(d, MkSpec("prod", ref1, EmptyText, NoRef, ty1, TRUE))
                    ELSE Gone(d)]
        /\ pg = [d \in Dbs |-> IF d = "d1" THEN p ELSE HealthyPg]
    /\ secrets = [id \in SecretIds |-> NoSecret]
    /\ cm \in [Namespaces -> {AbsentConfigMap, StaleConfigMap, StrippedConfigMap}]
    /\ wk = [d \in Dbs |-> Idle]
    /\ lastCall = NoCall

NextFault ==
    \E d \in Dbs :
        \/ Reconcile(d)
        \/ ReconcileFaulty(d)
        \/ DeleteDatabase(d)
        \/ EraseDatabase(d)

SpecFault == InitFault /\ [][NextFault]_vars

----------------------------------------------------------------------------
(* SpecDrift: the artifact is changed behind the controller's back.  The   *)
(* controller watches the resources only (the artifact carries no owner    *)
(* reference), so its invocations are the creation event of a resource and *)
(* the requeue its last status write asked for.                            *)

\* what another actor may leave in place of the artifact cur: nothing, an
\* object without data, labels and annotations, an emptied payload, or
\* foreign labels and count
TamperedShapes(cur) ==
    {AbsentConfigMap,
     [cur EXCEPT !.data = EmptyMap, !.labels = EmptyMap, !.annotations = EmptyMap,
                 !.version = @ + 1],
     [cur EXCEPT !.data = (DataKey :> << >>) @@ ("notes" :> << >>), !.version = @ + 1],
     [cur EXCEPT !.labels = EmptyMap, !.annotations = (CountKey :> "many"),
                 !.version = @ + 1]}

\* another actor modifies or removes the artifact of namespace ns
TamperConfigMap(ns) ==
    /\ cm[ns].exists
    /\ \E t \in TamperedShapes(cm[ns]) :
         /\ t.version + 1 <= MaxVersion
         /\ [t EXCEPT !.version = cm[ns].version] # cm[ns]
         /\ cm' = [cm EXCEPT ![ns] = t]
    /\ lastCall' = NoCall
    /\ UNCHANGED <<dbs, secrets, pg, wk>>

\* a trigger is due for d: the event of its creation, or the requeue its last
\* status write asked for with RequeueAfter
Due(d) ==
    /\ dbs[d].exists
    /\ dbs[d].status.phase = "" \/ RequeueAfter(dbs[d].status.phase) > 0

\* the event source puts the request for d on the work queue
Trigger(d) ==
    /\ wk[d].pc = "idle"
    /\ Due(d)
    /\ wk' = [wk EXCEPT ![d].pc = "queued"]
    /\ UNCHANGED <<dbs, secrets, pg, cm, lastCall>>

\* a worker takes the request for d and runs Reconcile to its end
Run(d) ==
    /\ wk[d].pc = "queued"
    /\ Commit(d, ReconcileResult(d, "none", dbs, secrets, pg[d], cm[dbs[d].namespace]))
    /\ wk' = [wk EXCEPT ![d] = Idle]

\* what a step Run(d) does to the work queue
Dequeue(d) ==
    /\ wk[d].pc = "queued"
    /\ wk' = [wk EXCEPT ![d] = Idle]

NextDrift ==
    \/ \E d \in Dbs : Trigger(d) \/ Run(d)
    \/ \E ns \in Namespaces : TamperConfigMap(ns)

\* every trigger that stays due is put on the queue, and every request that
\* stays on the queue is run
FairDrift == \A d \in Dbs : WF_wk(Trigger(d)) /\ WF_wk(Dequeue(d))

SpecDrift == Init /\ [][NextDrift]_vars /\ FairDrift

----------------------------------------------------------------------------
(* SpecRepair: one resource whose configuration and server are put right   *)
(* between reconciles                                                      *)

\* servers whose second catalog query comes back cut short
CutShortPg ==
    {[HealthyPg EXCEPT !.installed = {"plpgsql"}, !.query = "cut short", !.create = c] :
        c \in {"ok", "permission denied"}}

\* an operator creates the secret the URL reference names, or adds its key
SupplySecret ==
    /\ secrets[UrlSecretId] # SecretWith("url", UrlSec)
    /\ secrets' = [secrets EXCEPT ![UrlSecretId] = SecretWith("url", UrlSec)]
    /\ lastCall' = NoCall
    /\ UNCHANGED <<dbs, pg, cm, wk>>

\* the server of d comes back: it accepts connections and answers its queries
RepairServer(d) ==
    /\ pg[d].conn # "ok" \/ pg[d].query # "ok"
    /\ pg' = [pg EXCEPT ![d].conn = "ok", ![d].query = "ok"]
    /\ lastCall' = NoCall
    /\ UNCHANGED <<dbs, secrets, cm, wk>>

\* an administrator creates the missing extensions on the server of d
InstallExtension(d) ==
    /\ Range(RequiredExtensions) \ pg[d].installed # {}
    /\ pg' = [pg EXCEPT ![d].installed = @ \cup Range(RequiredExtensions)]
    /\ lastCall' = NoCall
    /\ UNCHANGED <<dbs, secrets, cm, wk>>

InitRepair ==
    /\ \E ref1 \in {NoRef, UrlRef}, su \in {EmptyText, UrlSuper},
          p \in PgStates \cup CutShortPg,
          sec \in {NoSecret, EmptySecret, SecretWith("url", UrlSec)} :
        /\ ref1 = UrlRef \/ sec = NoSecret
        /\ dbs = [d \in Dbs |->
                    IF d = "d1" THEN MkDb(d, MkSpec("prod", ref1, su, NoRef, "postgresql", TRUE))
                    ELSE Gone(d)]
        /\ secrets = [id \in SecretIds |-> IF id = UrlSecretId THEN sec ELSE NoSecret]
        /\ pg = [d \in Dbs |-> IF d = "d1" THEN p ELSE HealthyPg]
    /\ InitRest

NextRepair ==
    \/ Reconcile("d1")
    \/ SupplySecret
    \/ SupplySuperuserURL("d1")
    \/ RepairServer("d1")
    \/ InstallExtension("d1")

SpecRepair == InitRepair /\ [][NextRepair]_vars

----------------------------------------------------------------------------
(* SpecResolve: getDatabaseURL and getSuperuserURL over references into    *)
(* the resource's namespace and into another one                           *)

\* the value the secrets of namespace ns hold under the key "url"
UrlIn(ns) == <<"postgresql://", "mon", "@", ns>>

ResolveSecretIds == {<<ns, n>> : ns \in {"x", "y"}, n \in {"db-url", "db-su"}}

\* the secret references a resource may carry for the secret called name
SecretRefs(name) ==
    {NoRef} \cup {SecretRef(name, k, ns) : k \in {"url", "dsn"}, ns \in {"", "y"}}

\* one call of getDatabaseURL for d; the worker holds the URL returned
ResolveURL(d) ==
    /\ dbs[d].exists
    /\ wk' = [wk EXCEPT ![d].dbURL = GetDatabaseURL(dbs[d], secrets).url]
    /\ lastCall' = [db |-> d, ops |-> <<Op("getDatabaseURL", d)>>, requeueAfter |-> 0,
                    err |-> GetDatabaseURL(dbs[d], secrets).err, before |-> ""]
    /\ UNCHANGED <<dbs, secrets, pg, cm>>

\* one call of getSuperuserURL for d; the worker holds the URL returned
ResolveSuperuserURL(d) ==
    /\ dbs[d].exists
    /\ wk' = [wk EXCEPT ![d].dbURL =
                  GetSuperuserURL(dbs[d], dbs[d].spec.url, secrets).url]
    /\ lastCall' = [db |-> d, ops |-> <<Op("getSuperuserURL", d)>>, requeueAfter |-> 0,
                    err |-> GetSuperuserURL(dbs[d], dbs[d].spec.url, secrets).err,
                    before |-> ""]
    /\ UNCHANGED <<dbs, secrets, pg, cm>>

InitResolve ==
    /\ \E ref \in SecretRefs("db-url"), su \in {EmptyText, UrlSuper},
          suRef \in SecretRefs("db-su") :
         dbs = [d \in Dbs |->
                  IF d = "d1" THEN MkDb(d, MkSpec("prod", ref, su, suRef, "postgresql", TRUE))
                  ELSE Gone(d)]
    /\ \E present \in SUBSET ResolveSecretIds, keyed \in SUBSET ResolveSecretIds :
         /\ keyed \subseteq present
         /\ \A id \in present :
                (id[2] = "db-url" /\ dbs["d1"].spec.urlFromSecret.set)
                    \/ (id[2] = "db-su" /\ dbs["d1"].spec.superuserUrlFromSecret.set)
         /\ secrets = [id \in ResolveSecretIds |->
                         IF id \in keyed THEN SecretWith("url", UrlIn(id[1]))
                         ELSE IF id \in present THEN EmptySecret ELSE NoSecret]
    /\ pg = [d \in Dbs |-> HealthyPg]
    /\ cm = [ns \in Namespaces |-> AbsentConfigMap]
    /\ wk = [d \in Dbs |-> Idle]
    /\ lastCall = NoCall

NextResolve ==
    \E d \in Dbs :
        \/ ResolveURL(d)
        \/ ResolveSuperuserURL(d)

SpecResolve == InitResolve /\ [][NextResolve]_vars

----------------------------------------------------------------------------
(* SpecRetire: the steps of SpecConc, with resources that are deleted      *)
(* while the invocation for a sibling is under way.                        *)

\* a delete request for a resource that carries the finalizer
RequestDeletion(d) ==
    /\ wk[d].pc = "idle"
    /\ dbs[d].finalizer
    /\ DeleteDatabase(d)

\* the control plane erases a resource marked for deletion with the Update
\* that clears its last finalizer (lines 556-559)
AfterUpdate(d, obj) ==
    IF obj.exists /\ obj.deleting /\ ~obj.finalizer THEN Gone(d) ELSE obj

\* the effects of an invocation for a resource marked for deletion
Retired(d, r) ==
    /\ r.cm.version <= MaxVersion
    /\ dbs' = [dbs EXCEPT ![d] = AfterUpdate(d, r.obj)]
    /\ cm' = [cm EXCEPT ![dbs[d].namespace] = r.cm]
    /\ lastCall' = [db |-> d, ops |-> r.ops, requeueAfter |-> r.requeueAfter,
                    err |-> r.err, before |-> dbs[d].status.phase]
    /\ UNCHANGED <<secrets, pg, wk>>

\* handleDeletion for a resource that is marked and carries the finalizer
Retire(d) ==
    /\ wk[d].pc = "idle"
    /\ dbs[d].exists /\ dbs[d].deleting /\ dbs[d].finalizer
    /\ Retired(d, ReconcileResult(d, "none", dbs, secrets, pg[d], cm[dbs[d].namespace]))

NextRetire ==
    \E d \in Dbs :
        \/ CStart(d)
        \/ CList(d)
        \/ CGet(d)
        \/ CWrite(d)
        \/ RequestDeletion(d)
        \/ Retire(d)

SpecRetire == InitConc /\ [][NextRetire]_vars

----------------------------------------------------------------------------
(* SpecFrame: resources of two namespaces, each namespace with a ConfigMap *)
(* of its own, and invocations whose calls may fail.                       *)

FrameNamespaces == {"x", "y"}

InitFrame ==
    /\ \E ns2 \in FrameNamespaces,
          p \in {HealthyPg, [HealthyPg EXCEPT !.installed = {"plpgsql"}]} :
        /\ dbs = [d \in Dbs |->
                    IF d = "d1"
                    THEN MkDb(d, MkSpec("prod", NoRef, EmptyText, NoRef, "postgresql", TRUE))
                    ELSE [MkDb(d, MkSpec("stage", NoRef, EmptyText, NoRef, "mysql", TRUE))
                             EXCEPT !.namespace = ns2]]
        /\ pg = [d \in Dbs |-> IF d = "d1" THEN p ELSE HealthyPg]
    /\ secrets = [id \in ResolveSecretIds |-> NoSecret]
    /\ cm \in [FrameNamespaces -> {AbsentConfigMap, StaleConfigMap}]
    /\ wk = [d \in Dbs |-> Idle]
    /\ lastCall = NoCall

NextFrame ==
    \/ \E d \in Dbs : Reconcile(d)
    \/ ReconcileFaulty("d1")
    \/ DeleteDatabase("d1")
    \/ EraseDatabase("d1")

SpecFrame == InitFrame /\ [][NextFrame]_vars

----------------------------------------------------------------------------
(* SpecStatus: the steps of SpecRepair for a resource of either type, and  *)
(* invocations whose calls may fail.                                       *)

InitStatus ==
    /\ \E ref1 \in {NoRef, UrlRef}, su \in {EmptyText, UrlSuper},
          ty1 \in {"postgresql", "mysql"}, p \in PgStates \cup CutShortPg,
          sec \in {NoSecret, SecretWith("url", UrlSec)} :
        /\ ref1 = UrlRef \/ sec = NoSecret
        /\ ty1 = "postgresql" \/ (p = HealthyPg /\ su = EmptyText)
        /\ dbs = [d \in Dbs |->
                    IF d = "d1" THEN MkDb(d, MkSpec("prod", ref1, su, NoRef, ty1, TRUE))
                    ELSE Gone(d)]
        /\ secrets = [id \in SecretIds |-> IF id = UrlSecretId THEN sec ELSE NoSecret]
        /\ pg = [d \in Dbs |-> IF d = "d1" THEN p ELSE HealthyPg]
    /\ InitRest

NextStatus ==
    \/ Reconcile("d1")
    \/ ReconcileFaulty("d1")
    \/ SupplySecret
    \/ SupplySuperuserURL("d1")
    \/ RepairServer("d1")
    \/ InstallExtension("d1")

SpecStatus == InitStatus /\ [][NextStatus]_vars

----------------------------------------------------------------------------
(* Properties.  lastCall describes the invocation that ran last; in the    *)
(* action properties the unprimed state is the one the invocation began in *)

Live(d) == dbs[d].exists /\ ~dbs[d].deleting
NsOf(d) == dbs[d].namespace
Payload(ns) == cm[ns].data[DataKey]
IsPostgres(d) == dbs[d].spec.databaseType \in {"postgresql", ""}
Wrote(ops) == Did(ops, "Create ConfigMap") \/ Did(ops, "Update ConfigMap")
TouchedConfigMap(ops) == Wrote(ops) \/ Did(ops, "Get ConfigMap") \/ Did(ops, "List Databases")
Connected_To(ops) == Did(ops, "sql.Open") \/ Did(ops, "Ping")

\* the secret behind the resource's URL is absent, or lacks the key
UrlUnresolvable(d) ==
    LET ref == dbs[d].spec.urlFromSecret
        id == <<IF ref.namespace = "" THEN NsOf(d) ELSE ref.namespace, ref.name>>
    IN  ref.set /\ (~secrets[id].present \/ ref.key \notin DOMAIN secrets[id].data)

\* what the URL of a resolvable resource is
UrlValue(d) ==
    LET ref == dbs[d].spec.urlFromSecret
        id == <<IF ref.namespace = "" THEN NsOf(d) ELSE ref.namespace, ref.name>>
    IN  IF ref.set THEN secrets[id].data[ref.key] ELSE dbs[d].spec.url

\* the resources of ns that are enabled and whose URL resolves
Eligible(ns) ==
    {d \in Dbs : dbs[d].exists /\ NsOf(d) = ns /\ dbs[d].spec.enabled /\ ~UrlUnresolvable(d)}

EntryOf(d) == [name |-> dbs[d].spec.name, url |-> UrlValue(d)]

\* the last invocation was a live reconcile of d that went through upsert
UpsertDone(d) ==
    /\ lastCall.db = d /\ Live(d) /\ Wrote(lastCall.ops)
    /\ dbs[d].status.phase = "Ready"

\* C1: a successful upsert leaves in the artifact exactly one entry
\* spec.name -> resolved URL for each resource of the namespace that is
\* enabled and whose URL resolves, and no entry for any other resource
C1_UpsertWritesEligibleEntries ==
    \A d \in Dbs :
        UpsertDone(d) =>
            /\ {Payload(NsOf(d))[i] : i \in DOMAIN Payload(NsOf(d))}
                   = {EntryOf(e) : e \in Eligible(NsOf(d))}
            /\ Len(Payload(NsOf(d))) = Cardinality(Eligible(NsOf(d)))

\* an upsert has run in a namespace that holds a resource that is included
\* and one that is not
C1_Witness ==
    /\ UpsertDone("d1")
    /\ "d1" \in Eligible("x") /\ dbs["d2"].exists /\ "d2" \notin Eligible("x")
    /\ Payload("x") = <<EntryOf("d1")>>

\* C2: after every write of the artifact, by upsert or by rebuild, the
\* database-count annotation is the number of entries of the payload
C2_CountMatchesPayload ==
    \A d \in Dbs :
        (lastCall.db = d /\ Wrote(lastCall.ops) /\ lastCall.err = NoErr)
            => cm[NsOf(d)].annotations[CountKey] = Itoa(Len(Payload(NsOf(d))))

\* both resources are in place, enabled and resolvable, each has been
\* reconciled through a successful upsert, and no invocation is under way
BothUpserted ==
    \A d \in Dbs :
        /\ wk[d].pc = "idle" /\ Live(d) /\ d \in Eligible(NsOf(d))
        /\ dbs[d].status.phase = "Ready"
        /\ dbs[d].status.configMapRef = configMapName

\* C3: when two enabled, resolvable resources of one namespace are
\* reconciled in overlapping invocations and both upsert the artifact, the
\* artifact they leave holds the entries of both, whatever the interleaving
\* of their list, get, create and update steps
C3_NoLostUpdate ==
    BothUpserted =>
        \A d \in Dbs : \E i \in DOMAIN Payload(NsOf(d)) : Payload(NsOf(d))[i] = EntryOf(d)

\* the writes of the artifact an invocation attempted
WriteAttempts(ops) ==
    Cardinality({i \in DOMAIN ops : ops[i].op \in {"Create ConfigMap", "Update ConfigMap"}})

\* the last invocation ended in phase Error on a write rejected for its
\* version
ErrorOnConflict(d) ==
    /\ lastCall.db = d
    /\ dbs[d].status.phase = "Error"
    /\ dbs[d].status.message = <<"Failed to reconcile ConfigMap: %v", "conflict">>

\* C4: a write of the artifact rejected for a conflicting version is
\* retried inside the same upsert, so an invocation that ends in phase
\* Error on a conflict has attempted the write more than once
C4_ConflictIsRetried ==
    \A d \in Dbs : ErrorOnConflict(d) => WriteAttempts(lastCall.ops) > 1

\* d is the only resource of its namespace, enabled, with a literal URL,
\* its extension step is ready or skipped, and the namespace has no artifact
AloneWithoutArtifact(d) ==
    /\ Live(d) /\ dbs[d].spec.enabled /\ ~dbs[d].spec.urlFromSecret.set
    /\ \A e \in Dbs \ {d} : ~(dbs[e].exists /\ NsOf(e) = NsOf(d))
    /\ ~cm[NsOf(d)].exists
    /\ Prepare(dbs[d], secrets, pg[d]).upsert

\* the artifact holds d's entry alone with count 1, and d is Ready and
\* refers to the artifact
CreatedForOne(d) ==
    /\ cm[NsOf(d)].exists
    /\ cm[NsOf(d)].data = (DataKey :> <<[name |-> dbs[d].spec.name, url |-> dbs[d].spec.url]>>)
    /\ cm[NsOf(d)].annotations = (CountKey :> "1")
    /\ cm[NsOf(d)].labels = ManagedLabels
    /\ dbs[d].status.phase = "Ready"
    /\ dbs[d].status.configMapRef = "pghero-databases"

NoArtifactNoDatabase(ops) == ~TouchedConfigMap(ops) /\ ~Connected_To(ops)

\* C6: when the URL of the reconciled resource does not resolve (secret
\* absent or key absent) the reconcile sets phase Error with a message
\* naming the failed URL resolution, neither reads nor writes the artifact,
\* opens no database connection, and leaves the artifact as it was
C6_UnresolvedUrlIsError ==
    [][\A d \in Dbs :
         (Live(d) /\ UrlUnresolvable(d) /\ Reconcile(d)) =>
             /\ dbs'[d].status.phase = "Error"
             /\ dbs'[d].status.message
                    = <<"Failed to get database URL: %v", GetDatabaseURL(dbs[d], secrets).err>>
             /\ NoArtifactNoDatabase(lastCall'.ops)
             /\ cm' = cm /\ pg' = pg
             /\ lastCall'.requeueAfter = 60]_vars

C6_Witness ==
    /\ lastCall.db = "d1" /\ UrlUnresolvable("d1")
    /\ secrets[UrlSecretId].present
    /\ dbs["d1"].status.phase = "Error"
    /\ dbs["d1"].status.message = <<"Failed to get database URL: %v", "key not found in secret">>
    /\ cm["x"] = StaleConfigMap

\* what setupDatabaseExtensions returns for d in the current state
SetupOf(d) ==
    SetupDatabaseExtensions(dbs[d], GetDatabaseURL(dbs[d], secrets).url, pg[d], secrets)

\* a live postgresql (or unset-type) resource whose URL resolves
Provisionable(d) == Live(d) /\ IsPostgres(d) /\ ~UrlUnresolvable(d)

\* C7: for a postgresql or unset-type resource, when setupDatabaseExtensions
\* returns an error, or ready=false without error, the reconcile sets phase
\* Configuring with a message, does not run upsert (the artifact is neither
\* read nor written) and leaves the artifact reference on status empty
C7_NotReadyIsConfiguring ==
    [][\A d \in Dbs :
         (/\ Provisionable(d)
          /\ (SetupOf(d).err # NoErr \/ ~SetupOf(d).ready)
          /\ Reconcile(d)) =>
             /\ dbs'[d].status.phase = "Configuring"
             /\ dbs'[d].status.message # EmptyText
             /\ dbs'[d].status.configMapRef = ""
             /\ ~TouchedConfigMap(lastCall'.ops)
             /\ cm' = cm
             /\ lastCall'.requeueAfter = 30]_vars

\* an invocation ended Configuring on an error of the extension step, with
\* the artifact of an earlier run untouched
C7_Witness ==
    /\ lastCall.db = "d1" /\ Provisionable("d1")
    /\ dbs["d1"].status.phase = "Configuring"
    /\ dbs["d1"].status.message
           = <<"Setting up database extensions: %v", "failed to create extension">>
    /\ cm["x"] = StaleConfigMap

\* the server behind d cannot be reached: sql.Open or the ping fails
Unreachable(d) == pg[d].conn \in {"open failed", "unreachable"}

\* C8 as stated: when the target database is unreachable the phase of the
\* resource becomes Error
C8_UnreachableIsError ==
    [][\A d \in Dbs :
         (Provisionable(d) /\ Unreachable(d) /\ Reconcile(d)) =>
             dbs'[d].status.phase = "Error"]_vars

\* C8 amended: when the target database is unreachable the phase of the
\* resource becomes Configuring, with connection status Failed (open) or
\* Unreachable (ping), a last-error naming the failure, no upsert, and a
\* retry after 30 seconds
C8_UnreachableIsConfiguring ==
    [][\A d \in Dbs :
         (Provisionable(d) /\ Unreachable(d) /\ Reconcile(d)) =>
             /\ dbs'[d].status.phase = "Configuring"
             /\ dbs'[d].status.connectionStatus
                    = (IF pg[d].conn = "open failed" THEN "Failed" ELSE "Unreachable")
             /\ dbs'[d].status.lastError # EmptyText
             /\ ~dbs'[d].status.extensionsReady
             /\ ~TouchedConfigMap(lastCall'.ops)
             /\ lastCall'.requeueAfter = 30]_vars

C8_Witness ==
    /\ lastCall.db = "d1" /\ Provisionable("d1") /\ pg["d1"].conn = "unreachable"
    /\ dbs["d1"].status.phase = "Configuring"
    /\ dbs["d1"].status.connectionStatus = "Unreachable"
    /\ Did(lastCall.ops, "Ping")

\* the server answers, a required extension is missing, and creating it
\* over the regular connection fails with a permission-class error
NeedsSuperuser(d) ==
    /\ Provisionable(d)
    /\ pg[d].conn = "ok" /\ pg[d].query # "first"
    /\ \E i \in DOMAIN RequiredExtensions : RequiredExtensions[i] \notin pg[d].installed
    /\ pg[d].create \in {"permission denied", "must be superuser"}

\* neither a literal superuser URL nor a superuser secret is configured
NoSuperuserConfigured(d) ==
    dbs[d].spec.superuserUrl = EmptyText /\ ~dbs[d].spec.superuserUrlFromSecret.set

\* the last-error recorded when superuser credentials are missing
AsksForSuperuser(text) ==
    text = <<"Permission denied to create extension %s. Database user needs superuser privileges or provide superuser credentials via superuserUrl or superuserUrlFromSecret.", "pg_stat_statements">>

\* C9: when creating a missing extension fails with a permission-class
\* error and no superuser credentials are configured,
\* setupDatabaseExtensions returns ready=false with no error, sets
\* extensions-ready false and a last-error that mentions superuser
\* privileges, and the reconcile ends in phase Configuring
C9_MissingSuperuserIsConfiguring ==
    [][\A d \in Dbs :
         (NeedsSuperuser(d) /\ NoSuperuserConfigured(d) /\ Reconcile(d)) =>
             /\ ~SetupOf(d).ready /\ SetupOf(d).err = NoErr
             /\ ~SetupOf(d).status.extensionsReady
             /\ AsksForSuperuser(SetupOf(d).status.lastError)
             /\ dbs'[d].status.phase = "Configuring"
             /\ ~dbs'[d].status.extensionsReady
             /\ AsksForSuperuser(dbs'[d].status.lastError)
             /\ pg' = pg]_vars

C9_Witness ==
    /\ lastCall.db = "d1" /\ NeedsSuperuser("d1") /\ NoSuperuserConfigured("d1")
    /\ pg["d1"].create = "must be superuser"
    /\ dbs["d1"].status.phase = "Configuring"
    /\ AsksForSuperuser(dbs["d1"].status.lastError)
    /\ Did(lastCall.ops, "CREATE EXTENSION")

\* d is Configuring because superuser credentials were missing
WaitsForSuperuser(d) ==
    /\ dbs[d].status.phase = "Configuring"
    /\ AsksForSuperuser(dbs[d].status.lastError)

\* C10: a resource that is Configuring for want of superuser credentials
\* becomes Ready in the next reconcile once a superuser URL is supplied and
\* the superuser connection creates the extension; nothing the earlier
\* outcome left behind stands in the way
C10_ReadyOnceSuperuserSupplied ==
    [][\A d \in Dbs :
         (/\ WaitsForSuperuser(d) /\ NeedsSuperuser(d)
          /\ dbs[d].spec.superuserUrl # EmptyText
          /\ ~dbs[d].spec.superuserUrlFromSecret.set
          /\ pg[d].super = "ok" /\ pg[d].query = "ok"
          /\ Reconcile(d)) =>
             /\ dbs'[d].status.phase = "Ready"
             /\ dbs'[d].status.extensionsReady
             /\ dbs'[d].status.lastError = EmptyText
             /\ dbs'[d].status.configMapRef = configMapName
             /\ \A i \in DOMAIN RequiredExtensions : RequiredExtensions[i] \in pg'[d].installed
             /\ Did(lastCall'.ops, "CREATE EXTENSION superuser")]_vars

C10_Witness ==
    /\ lastCall.db = "d1" /\ lastCall.before = "Configuring"
    /\ dbs["d1"].spec.superuserUrl = UrlSuper
    /\ Did(lastCall.ops, "CREATE EXTENSION superuser")
    /\ dbs["d1"].status.phase = "Ready"
    /\ "pg_stat_statements" \in pg["d1"].installed

\* the last invocation wrote the status of its resource
StatusPersisted == Did(lastCall.ops, "Update Status") /\ lastCall.err = NoErr

\* C11: every reconcile that persists a status returns the interval fixed
\* by the phase it wrote: Ready 5 minutes, Configuring 30 seconds, Error
\* 1 minute; so a resource left in Error or Configuring has a further
\* reconcile scheduled
C11_RequeueFixedByPhase ==
    \A d \in Dbs :
        (lastCall.db = d /\ StatusPersisted) =>
            /\ dbs[d].status.phase \in {"Ready", "Configuring", "Error"}
            /\ dbs[d].status.phase = "Ready" => lastCall.requeueAfter = 5 * 60
            /\ dbs[d].status.phase = "Configuring" => lastCall.requeueAfter = 30
            /\ dbs[d].status.phase = "Error" => lastCall.requeueAfter = 60
            /\ lastCall.requeueAfter > 0

C11_Witness ==
    /\ lastCall.db = "d1" /\ StatusPersisted
    /\ dbs["d1"].status.phase = "Error" /\ lastCall.requeueAfter = 60
    /\ Did(lastCall.ops, "List Databases")

\* the position of the first call named name among ops, 0 if there is none
FirstCall(ops, name) ==
    IF Did(ops, name)
    THEN CHOOSE i \in DOMAIN ops :
             ops[i].op = name /\ \A j \in 1..(i - 1) : ops[j].op # name
    ELSE 0

\* d carries deletion intent and still carries the cleanup marker
DeletingMarked(d) == dbs[d].exists /\ dbs[d].deleting /\ dbs[d].finalizer

\* the calls rebuildAggregatedConfigMap makes to the control plane
RebuildFaults == {"none", "List Databases", "Get ConfigMap", "Write ConfigMap"}

\* C12: on the deletion path of a resource that carries the cleanup marker,
\* the marker is removed and persisted whether the rebuild succeeds or
\* fails, after a rebuild attempt made in the same invocation
C12_DeletionNeverBlocked ==
    [][\A d \in Dbs : \A fault \in RebuildFaults :
         (DeletingMarked(d) /\ Invoke(d, fault)) =>
             /\ ~dbs'[d].finalizer
             /\ lastCall'.err = NoErr
             /\ FirstCall(lastCall'.ops, "List Databases") > 0
             /\ FirstCall(lastCall'.ops, "List Databases")
                    < FirstCall(lastCall'.ops, "Update Database")]_vars

\* the entries of the enabled, resolvable resources of ns other than excl,
\* in the order of the listing
EntriesWithout(ns, excl) ==
    LET ids == SelectSeq(ListOrder, LAMBDA e : e \in Eligible(ns) \ {excl})
    IN  [i \in DOMAIN ids |-> EntryOf(ids[i])]

\* C13: a successful rebuild(namespace, excludeID) on an existing artifact
\* writes a payload without the excluded resource's entry that otherwise is
\* what upsert computes over the remaining resources: the enabled and
\* resolvable ones, the unresolvable ones skipped
C13_RebuildExcludesDeleted ==
    [][\A d \in Dbs :
         (DeletingMarked(d) /\ cm[NsOf(d)].exists /\ Reconcile(d)) =>
             /\ Did(lastCall'.ops, "Update ConfigMap")
             /\ cm'[NsOf(d)].data[DataKey] = EntriesWithout(NsOf(d), d)
             /\ cm'[NsOf(d)].annotations[CountKey] = Itoa(Len(EntriesWithout(NsOf(d), d)))
             /\ cm'[NsOf(d)].labels = cm[NsOf(d)].labels]_vars

\* d1, which was in the artifact, has been deleted next to a sibling that
\* stays and one rebuild has left the sibling's entry alone
C13_Witness ==
    /\ lastCall.db = "d1" /\ dbs["d1"].deleting /\ ~dbs["d1"].finalizer
    /\ lastCall.before = "Ready" /\ dbs["d1"].spec.enabled
    /\ Did(lastCall.ops, "Update ConfigMap")
    /\ "d2" \in Eligible("x")
    /\ Payload("x") = <<EntryOf("d2")>>

\* C14: when a resource is deleted while the artifact does not exist,
\* rebuild returns without error and without creating the artifact, and
\* the cleanup marker is cleared without error
C14_DeleteWithoutArtifact ==
    [][\A d \in Dbs :
         (DeletingMarked(d) /\ ~cm[NsOf(d)].exists /\ Reconcile(d)) =>
             /\ RebuildAggregatedConfigMap(NsOf(d), d, "none", dbs, secrets,
                                           cm[NsOf(d)]).err = NoErr
             /\ ~RebuildAggregatedConfigMap(NsOf(d), d, "none", dbs, secrets,
                                            cm[NsOf(d)]).cm.exists
             /\ cm' = cm
             /\ ~Wrote(lastCall'.ops)
             /\ ~dbs'[d].finalizer
             /\ lastCall'.err = NoErr]_vars

C14_Witness ==
    /\ lastCall.db = "d1" /\ dbs["d1"].deleting /\ ~dbs["d1"].finalizer
    /\ ~cm["x"].exists
    /\ Did(lastCall.ops, "Get ConfigMap") /\ Did(lastCall.ops, "Update Database")

\* d carries deletion intent and its cleanup marker is gone
DeletingUnmarked(d) == dbs[d].exists /\ dbs[d].deleting /\ ~dbs[d].finalizer

\* C15: a reconcile of a resource with deletion intent whose cleanup marker
\* is already absent performs no rebuild, writes neither the resource, its
\* status nor the artifact, and returns success with no requeue
C15_RedeliveredDeletionIsNoOp ==
    [][\A d \in Dbs :
         (DeletingUnmarked(d) /\ Reconcile(d)) =>
             /\ dbs' = dbs /\ cm' = cm /\ pg' = pg /\ secrets' = secrets
             /\ lastCall'.ops = <<Op("Get Database", d)>>
             /\ lastCall'.err = NoErr
             /\ lastCall'.requeueAfter = 0]_vars

\* the invocation that cleared the marker has been followed by another one
C15_Witness ==
    /\ lastCall.db = "d1" /\ DeletingUnmarked("d1")
    /\ lastCall.ops = <<Op("Get Database", "d1")>>
    /\ cm["x"].exists /\ cm["x"] # StaleConfigMap

\* C16: on a non-deleting resource without the cleanup marker, the marker
\* is added and persisted before URL resolution, extension provisioning,
\* artifact write and status write, and none of those runs if persisting
\* the marker fails; so every non-deleting resource an invocation got past
\* that step for carries the marker
C16_MarkerFirst ==
    [][\A d \in Dbs : \A fault \in Faults \ {"Get Database"} :
         (Live(d) /\ Invoke(d, fault)) =>
             /\ ~dbs[d].finalizer =>
                    /\ Len(lastCall'.ops) >= 2
                    /\ lastCall'.ops[2] = Op("Update Database", d)
                    /\ lastCall'.ops[1] = Op("Get Database", d)
             /\ (~dbs[d].finalizer /\ fault = "Update Database") =>
                    /\ Len(lastCall'.ops) = 2 /\ lastCall'.err # NoErr
                    /\ dbs' = dbs /\ cm' = cm /\ pg' = pg
             /\ (dbs[d].finalizer \/ fault # "Update Database") => dbs'[d].finalizer
             /\ (lastCall'.err = NoErr \/ Len(lastCall'.ops) > 2) => dbs'[d].finalizer]_vars

\* persisting the marker has failed and the invocation stopped there
C16_Witness ==
    /\ lastCall.db = "d1" /\ Live("d1") /\ ~dbs["d1"].finalizer
    /\ lastCall.ops = <<Op("Get Database", "d1"), Op("Update Database", "d1")>>
    /\ lastCall.err # NoErr /\ dbs["d1"].status.phase = ""

\* C17: a reconcile triggered for a resource that no longer exists returns
\* success with no requeue and writes nothing
C17_VanishedIsNoOp ==
    [][\A d \in Dbs :
         (~dbs[d].exists /\ Reconcile(d)) =>
             /\ dbs' = dbs /\ cm' = cm /\ pg' = pg /\ secrets' = secrets
             /\ lastCall'.ops = <<Op("Get Database", d)>>
             /\ lastCall'.err = NoErr
             /\ lastCall'.requeueAfter = 0]_vars

\* d1, which was there at the start, is gone and has been reconciled since
C17_Witness ==
    /\ lastCall.db = "d1" /\ ~dbs["d1"].exists
    /\ lastCall.ops = <<Op("Get Database", "d1")>> /\ lastCall.err = NoErr

\* the failures of the control plane the claim names besides the status
\* write: persisting the cleanup marker, and the calls of the aggregation
AbsorbedFaults ==
    {"none", "Update Database", "List Databases", "Get ConfigMap", "Write ConfigMap"}

\* C18: only a failure to persist the status makes Reconcile return an
\* error; every other failure met during a reconcile of an existing
\* resource (URL resolution, database, extension creation, aggregation,
\* persisting the cleanup marker) ends in a status write and is returned
\* as success with the requeue of the phase written
C18_OnlyStatusFailureEscalates ==
    [][\A d \in Dbs : \A fault \in AbsorbedFaults :
         (Live(d) /\ Invoke(d, fault)) =>
             /\ lastCall'.err = NoErr
             /\ Did(lastCall'.ops, "Update Status")
             /\ lastCall'.requeueAfter > 0]_vars

\* every resource of the namespace of d is in place, not deleting and Ready,
\* and the step before was a reconcile in that namespace
Settled(d) ==
    /\ lastCall.db \in Dbs /\ NsOf(lastCall.db) = NsOf(d) /\ Live(lastCall.db)
    /\ Wrote(lastCall.ops)
    /\ \A e \in Dbs : (dbs[e].exists /\ NsOf(e) = NsOf(d)) =>
                          (Live(e) /\ dbs[e].status.phase = "Ready")

\* C19: reconciling again with no external change keeps every resource
\* Ready and leaves payload, labels and count annotation of the artifact
\* as they were, with no version conflict
C19_RepetitionChangesNothing ==
    [][\A d \in Dbs :
         (Live(d) /\ Settled(d) /\ Reconcile(d)) =>
             /\ dbs' = dbs
             /\ cm' = cm
             /\ lastCall'.err = NoErr
             /\ lastCall'.requeueAfter = 300]_vars

\* d2 has been reconciled after d1, and both are Ready in one artifact
C19_Witness ==
    /\ lastCall.db = "d2" /\ lastCall.before = "Ready" /\ Settled("d2")
    /\ dbs["d1"].exists /\ dbs["d1"].status.phase = "Ready"
    /\ Len(Payload("x")) = 2

\* a resource of d's namespace other than d whose URL does not resolve
BadSibling(d) ==
    \E e \in Dbs \ {d} : dbs[e].exists /\ NsOf(e) = NsOf(d) /\ UrlUnresolvable(e)

\* C20: a sibling whose URL cannot be resolved never makes the upsert of
\* another resource fail: the artifact is written with the entries of all
\* other enabled, resolvable resources and the reconciled resource is Ready
C20_BadSiblingIsSkipped ==
    [][\A d \in Dbs :
         (/\ Live(d) /\ BadSibling(d)
          /\ Prepare(dbs[d], secrets, pg[d]).upsert
          /\ Reconcile(d)) =>
             /\ Wrote(lastCall'.ops)
             /\ cm'[NsOf(d)].data[DataKey] = EntriesWithout(NsOf(d), "")
             /\ dbs'[d].status.phase = "Ready"
             /\ dbs'[d].status.configMapRef = configMapName]_vars

C20_Witness ==
    /\ UpsertDone("d1") /\ BadSibling("d1") /\ dbs["d2"].spec.enabled
    /\ Payload("x") = <<EntryOf("d1")>>
    /\ dbs["d2"].status.phase = "Error"

\* the conditions of type Ready the resource carries
ReadyConditions(d) ==
    {i \in DOMAIN dbs[d].status.conditions : dbs[d].status.conditions[i].type = "Ready"}

\* C21: starting without conditions, a resource has at most one condition
\* of type Ready after any sequence of reconciles; once a status has been
\* written it has exactly one, whose reason is the phase and whose message
\* is the message the last status write stored, and whose status is true
\* if and only if that phase is Ready
C21_SingleReadyCondition ==
    \A d \in Dbs :
        dbs[d].exists =>
            /\ Cardinality(ReadyConditions(d)) <= 1
            /\ Len(dbs[d].status.conditions) <= 1
            /\ dbs[d].status.phase # "" =>
                   /\ Len(dbs[d].status.conditions) = 1
                   /\ dbs[d].status.conditions[1].type = "Ready"
                   /\ dbs[d].status.conditions[1].reason = dbs[d].status.phase
                   /\ dbs[d].status.conditions[1].message = dbs[d].status.message
                   /\ (dbs[d].status.conditions[1].status = "True")
                          <=> (dbs[d].status.phase = "Ready")
                   /\ dbs[d].status.conditions[1].status \in {"True", "False"}

\* a status write has replaced the condition of a resource that was Ready
\* by the one of phase Error
C21_Witness ==
    /\ lastCall.db = "d1" /\ lastCall.before = "Ready" /\ StatusPersisted
    /\ dbs["d1"].status.phase = "Error"
    /\ dbs["d1"].status.conditions
           = <<[type |-> "Ready", status |-> "False", reason |-> "Error",
                message |-> dbs["d1"].status.message]>>

\* the calls of an invocation that name a ConfigMap
ConfigMapOps == {"Get ConfigMap", "Create ConfigMap", "Update ConfigMap", "Delete ConfigMap"}

ServerOps ==
    {"sql.Open", "Ping", "SELECT extname", "CREATE EXTENSION", "sql.Open superuser",
     "Ping superuser", "CREATE EXTENSION superuser", "GRANT pg_monitor", "GRANT EXECUTE"}

\* C23: a reconcile of a resource whose database type is neither postgresql
\* nor unset makes no call to a database server and never writes phase
\* Configuring; once the URL is resolved its next call is the listing of
\* upsert, and when upsert succeeds the phase written is Ready with
\* extensions-ready true
C23_OtherTypesSkipProvisioning ==
    [][\A d \in Dbs : \A fault \in Faults :
         (Live(d) /\ ~IsPostgres(d) /\ Invoke(d, fault)) =>
             /\ \A i \in DOMAIN lastCall'.ops : lastCall'.ops[i].op \notin ServerOps
             /\ pg' = pg
             /\ dbs'[d].status.phase # "Configuring"
             /\ dbs'[d].status.connectionStatus = ""
             /\ (~UrlUnresolvable(d) /\ Len(lastCall'.ops) > Len(PrepareOps(dbs[d])) + 1) =>
                    /\ FirstCall(lastCall'.ops, "List Databases")
                           = Len(PrepareOps(dbs[d])) + 2
                    /\ dbs'[d].status.phase \in {"Ready", "Error"} \/ lastCall'.err # NoErr
             /\ (~UrlUnresolvable(d) /\ fault = "none") =>
                    /\ Wrote(lastCall'.ops)
                    /\ dbs'[d].status.phase = "Ready"
                    /\ dbs'[d].status.extensionsReady
                    /\ dbs'[d].status.configMapRef = configMapName]_vars

\* a mysql resource whose server cannot be reached has been reconciled to
\* Ready without a call to the server
C23_Witness ==
    /\ lastCall.db = "d1" /\ Live("d1") /\ dbs["d1"].spec.databaseType = "mysql"
    /\ pg["d1"].conn = "unreachable"
    /\ Wrote(lastCall.ops) /\ ~Connected_To(lastCall.ops)
    /\ dbs["d1"].status.phase = "Ready" /\ dbs["d1"].status.extensionsReady

\* every resource of ns is in place, not deleting and Ready, and there is one
AllReady(ns) ==
    /\ \E d \in Dbs : dbs[d].exists /\ NsOf(d) = ns
    /\ \A d \in Dbs : (dbs[d].exists /\ NsOf(d) = ns) =>
                          (Live(d) /\ dbs[d].status.phase = "Ready")

\* the artifact of ns is the one upsert computes from the resources as they
\* are: the entries of the enabled, resolvable ones, the managed labels, and
\* as count the number of resources listed
InSync(ns) ==
    /\ cm[ns].exists
    /\ cm[ns].data = (DataKey :> EntriesWithout(ns, ""))
    /\ cm[ns].labels = ManagedLabels
    /\ cm[ns].annotations = (CountKey :> Itoa(Len(DatabaseList(dbs, ns))))

\* C24: when the artifact has been modified or removed by another actor
\* while the resources of its namespace are Ready, and the periodic trigger
\* of phase Ready is delivered fairly, a later reconcile leaves an artifact
\* whose payload, labels and count annotation are again the ones computed
\* from the current resources
C24_DriftIsCorrected ==
    \A ns \in Namespaces : (AllReady(ns) /\ ~InSync(ns)) ~> InSync(ns)

\* a reconcile of a resource that was Ready already has created the
\* artifact anew: it had been removed in between
C24_Witness ==
    /\ lastCall.db = "d1" /\ lastCall.before = "Ready"
    /\ Did(lastCall.ops, "Create ConfigMap")
    /\ AllReady("x") /\ InSync("x") /\ dbs["d2"].exists

\* the phases updateStatus is called with
WrittenPhases == {"Configuring", "Ready", "Error"}

\* nothing stands in the way of d any more: its URL resolves and, for
\* postgresql, its server answers and every required extension is there or
\* can be created, directly or over a configured superuser connection
ConfigurationGood(d) ==
    /\ ~UrlUnresolvable(d)
    /\ IsPostgres(d) =>
           /\ pg[d].conn = "ok" /\ pg[d].query = "ok"
           /\ \/ Range(RequiredExtensions) \subseteq pg[d].installed
              \/ pg[d].create = "ok"
              \/ /\ pg[d].create \in {"permission denied", "must be superuser"}
                 /\ dbs[d].spec.superuserUrl # EmptyText
                 /\ ~dbs[d].spec.superuserUrlFromSecret.set
                 /\ pg[d].super = "ok"

\* the phase a reconcile of d would store if the resources were all
PhaseWritten(d, all) ==
    ReconcileResult(d, "none", all, secrets, pg[d], cm[NsOf(d)]).obj.status.phase

\* C25: the stored phase is empty (the default, Pending) exactly until the
\* first status write and afterwards one of Configuring, Ready, Error; the
\* phase a reconcile writes is the same whatever phase was stored before,
\* so it is decided by the current invocation alone; and a resource in
\* Error or Configuring whose configuration has been put right is Ready
\* after the next reconcile: neither phase is absorbing
C25_PhaseFromCurrentOutcome ==
    /\ [](\A d \in Dbs :
            Live(d) =>
                /\ dbs[d].status.phase \in {""} \cup WrittenPhases
                /\ (dbs[d].status.phase = "") <=> (dbs[d].status.conditions = << >>)
                /\ \A ph \in {"", "Pending"} \cup WrittenPhases :
                       PhaseWritten(d, [dbs EXCEPT ![d].status.phase = ph])
                           = PhaseWritten(d, dbs))
    /\ [][\A d \in Dbs :
            (Live(d) /\ Reconcile(d)) =>
                /\ dbs'[d].status.phase \in WrittenPhases
                /\ Did(lastCall'.ops, "Update Status")
                /\ ConfigurationGood(d) => dbs'[d].status.phase = "Ready"]_vars

\* a resource that was in Error for want of its secret is Ready after the
\* reconcile that followed the creation of the secret
C25_Witness ==
    /\ lastCall.db = "d1" /\ lastCall.before = "Error"
    /\ dbs["d1"].spec.urlFromSecret.set
    /\ dbs["d1"].status.phase = "Ready"
    /\ dbs["d1"].status.conditions[1].status = "True"

\* the secret a reference of d names: in the namespace of the reference or,
\* when that is empty, in the namespace of d
SecretNamed(d, ref) ==
    secrets[<<IF ref.namespace = "" THEN NsOf(d) ELSE ref.namespace, ref.name>>]

\* the last step was a call of the resolver fn for d
Resolved(fn, d) == lastCall.ops = <<Op(fn, d)>>

C27_ResolveSuperuserURL ==
    [][\A d \in Dbs :
         ResolveSuperuserURL(d) =>
             LET ref == dbs[d].spec.superuserUrlFromSecret
                 url == wk'[d].dbURL
                 err == lastCall'.err
             IN  /\ (~ref.set /\ dbs[d].spec.superuserUrl = EmptyText) =>
                        (url = EmptyText /\ err = NoErr)
                 /\ (~ref.set /\ dbs[d].spec.superuserUrl # EmptyText) =>
                        (url = dbs[d].spec.superuserUrl /\ err = NoErr)
                 /\ (ref.set /\ ~SecretNamed(d, ref).present) =>
                        (err = "failed to get superuser secret" /\ url = EmptyText)
                 /\ (ref.set /\ SecretNamed(d, ref).present
                       /\ ref.key \notin DOMAIN SecretNamed(d, ref).data) =>
                        (err = "key not found in superuser secret" /\ url = EmptyText)
                 /\ (ref.set /\ SecretNamed(d, ref).present
                       /\ ref.key \in DOMAIN SecretNamed(d, ref).data) =>
                        (err = NoErr /\ url = SecretNamed(d, ref).data[ref.key])
                 /\ dbs' = dbs /\ secrets' = secrets /\ cm' = cm /\ pg' = pg]_vars

\* a literal superuser URL and a secret reference are both configured and
\* the value of the secret was returned
C27_Witness ==
    /\ Resolved("getSuperuserURL", "d1")
    /\ dbs["d1"].spec.superuserUrl = UrlSuper
    /\ dbs["d1"].spec.superuserUrlFromSecret.set
    /\ lastCall.err = NoErr /\ wk["d1"].dbURL = UrlIn("x")

\* the server of d answers the connection and the first catalog query
Answers(d) == Provisionable(d) /\ pg[d].conn = "ok" /\ pg[d].query # "first"

\* every required extension is in the catalog of the server of d
NothingMissing(d) == Range(RequiredExtensions) \subseteq pg[d].installed

\* how many of the calls ops are called name
Calls(ops, name) == Cardinality({i \in DOMAIN ops : ops[i].op = name})

\* C28: when every required extension is already in the installed catalog,
\* setupDatabaseExtensions attempts no creation and opens no superuser
\* connection, sets extensions-ready, clears last-error, records the catalog
\* as installed-extensions and returns ready=true without error
C28_NothingMissingIsReady ==
    [][\A d \in Dbs :
         (Answers(d) /\ NothingMissing(d) /\ Reconcile(d)) =>
             /\ SetupOf(d).ready /\ SetupOf(d).err = NoErr
             /\ \A i \in DOMAIN lastCall'.ops :
                    lastCall'.ops[i].op \notin
                        {"CREATE EXTENSION", "sql.Open superuser", "Ping superuser",
                         "CREATE EXTENSION superuser"}
             /\ Calls(lastCall'.ops, "SELECT extname") = 1
             /\ pg' = pg
             /\ dbs'[d].status.extensionsReady
             /\ dbs'[d].status.lastError = EmptyText
             /\ dbs'[d].status.installedExtensions = QueryExtensions(pg[d].installed)
             /\ dbs'[d].status.connectionStatus = "Connected"
             /\ dbs'[d].status.phase = "Ready"]_vars

\* the resource was Configuring with a last-error for want of privileges,
\* the extension was then created by hand, and the reconcile that followed
\* created nothing and cleared the last-error
C28_Witness ==
    /\ lastCall.db = "d1" /\ lastCall.before = "Configuring"
    /\ pg["d1"].create = "permission denied" /\ NoSuperuserConfigured("d1")
    /\ NothingMissing("d1")
    /\ ~Did(lastCall.ops, "CREATE EXTENSION")
    /\ dbs["d1"].status.lastError = EmptyText /\ dbs["d1"].status.extensionsReady
    /\ dbs["d1"].status.installedExtensions = CatalogOrder

\* the loop over the missing extensions of d runs to its end: each creation
\* succeeds, directly or over the configured superuser connection
CreationsGoThrough(d) ==
    \/ pg[d].create = "ok"
    \/ /\ pg[d].create \in {"permission denied", "must be superuser"}
       /\ GetSuperuserURL(dbs[d], dbs[d].spec.url, secrets).err = NoErr
       /\ GetSuperuserURL(dbs[d], dbs[d].spec.url, secrets).url # EmptyText
       /\ pg[d].super = "ok"

\* the extensions the second catalog query of an invocation reads, given the
\* catalog the invocation leaves
Reread(d, installed) == IF pg[d].query = "cut short" THEN {} ELSE installed

\* C29: once creation has been attempted for every missing extension
\* without a hard error, setupDatabaseExtensions queries the catalog again
\* and returns ready exactly when every required extension is in the
\* catalog it reads then, whatever the creations reported; extensions-ready
\* is set to that value and last-error is cleared only when it is true
C29_ReadyFromRequery ==
    [][\A d \in Dbs :
         (/\ Answers(d) /\ ~NothingMissing(d) /\ CreationsGoThrough(d)
          /\ pg[d].query # "second"
          /\ Reconcile(d)) =>
             /\ Did(lastCall'.ops, "CREATE EXTENSION")
             /\ Calls(lastCall'.ops, "SELECT extname") = 2
             /\ SetupOf(d).err = NoErr
             /\ SetupOf(d).ready
                    <=> (Range(RequiredExtensions) \subseteq Reread(d, pg'[d].installed))
             /\ SetupOf(d).status.extensionsReady = SetupOf(d).ready
             /\ SetupOf(d).status.lastError
                    = (IF SetupOf(d).ready THEN EmptyText ELSE dbs[d].status.lastError)
             /\ dbs'[d].status.extensionsReady = SetupOf(d).ready
             /\ dbs'[d].status.lastError = SetupOf(d).status.lastError
             /\ dbs'[d].status.phase
                    = (IF SetupOf(d).ready THEN "Ready" ELSE "Configuring")]_vars

\* the superuser connection has created the extension, the second query
\* came back without it, and the resource stays Configuring with the
\* last-error of the reconcile before
C29_Witness ==
    /\ lastCall.db = "d1" /\ lastCall.before = "Configuring"
    /\ Did(lastCall.ops, "CREATE EXTENSION superuser")
    /\ Calls(lastCall.ops, "SELECT extname") = 2
    /\ NothingMissing("d1") /\ pg["d1"].query = "cut short"
    /\ dbs["d1"].status.phase = "Configuring" /\ ~dbs["d1"].status.extensionsReady
    /\ AsksForSuperuser(dbs["d1"].status.lastError)

\* the message of the failed creation is of the permission class
PermissionClass(d) == pg[d].create \in {"permission denied", "must be superuser"}

\* superuser credentials can be had for d
SuperuserAvailable(d) ==
    /\ GetSuperuserURL(dbs[d], dbs[d].spec.url, secrets).err = NoErr
    /\ GetSuperuserURL(dbs[d], dbs[d].spec.url, secrets).url # EmptyText

\* the invocation went to the server as superuser
UsedSuperuser(ops) == Did(ops, "sql.Open superuser")

\* C30: a failed direct creation of an extension leads to the superuser
\* path if and only if its message is of the permission class; any other
\* failure makes setupDatabaseExtensions return an error without going
\* near the superuser path; and a failure of the permission class never
\* comes back as that error: without credentials, or when the superuser
\* attempt fails, the result is ready=false, no error, and a last-error
C30_FallbackOnlyOnPermission ==
    [][\A d \in Dbs :
         (Answers(d) /\ ~NothingMissing(d) /\ Reconcile(d)) =>
             /\ Did(lastCall'.ops, "CREATE EXTENSION")
             /\ pg[d].create = "ok" => ~UsedSuperuser(lastCall'.ops)
             /\ (pg[d].create # "ok" /\ ~PermissionClass(d)) =>
                    /\ ~UsedSuperuser(lastCall'.ops)
                    /\ SetupOf(d).err = "failed to create extension"
                    /\ ~SetupOf(d).ready
                    /\ dbs'[d].status.lastError
                           = <<"Failed to create extension %s: %v",
                               "pg_stat_statements", pg[d].create>>
                    /\ pg' = pg
             /\ PermissionClass(d) =>
                    /\ UsedSuperuser(lastCall'.ops) <=> SuperuserAvailable(d)
                    /\ SetupOf(d).err # "failed to create extension"
                    /\ (~SuperuserAvailable(d) \/ pg[d].super # "ok") =>
                           /\ SetupOf(d).err = NoErr /\ ~SetupOf(d).ready
                           /\ ~dbs'[d].status.extensionsReady
                           /\ dbs'[d].status.lastError
                                  = (IF SuperuserAvailable(d)
                                     THEN LastErrSuperuserFailed("pg_stat_statements")
                                     ELSE LastErrPermission("pg_stat_statements"))
                           /\ dbs'[d].status.message
                                  = <<"Setting up required database extensions">>]_vars

\* a creation failed for another reason while superuser credentials were
\* configured: the error came back and the superuser path was not taken
C30_Witness ==
    /\ lastCall.db = "d1" /\ pg["d1"].create = "other"
    /\ SuperuserAvailable("d1")
    /\ ~UsedSuperuser(lastCall.ops) /\ Did(lastCall.ops, "CREATE EXTENSION")
    /\ dbs["d1"].status.message
           = <<"Setting up database extensions: %v", "failed to create extension">>

\* the user of the URL d connects with: the literal URL, or the value of the
\* secret when the URL comes from one
ConnectionUser(d) == ExtractUsernameFromURL(UrlValue(d))

\* the calls among ops that grant something, with the user they name
Grants(ops) ==
    {<<ops[i].op, ops[i].arg>> :
        i \in {j \in DOMAIN ops : ops[j].op \in {"GRANT pg_monitor", "GRANT EXECUTE"}}}

\* C31: after the superuser connection has created an extension, both
\* grants go to the user of the URL the resource connects with, literal or
\* secret-backed, and are left out exactly when that user is empty or
\* "postgres"; readiness does not depend on them
C31_GrantsGoToConnectionUser ==
    [][\A d \in Dbs :
         (/\ NeedsSuperuser(d) /\ SuperuserAvailable(d) /\ pg[d].super = "ok"
          /\ Reconcile(d)) =>
             /\ Did(lastCall'.ops, "CREATE EXTENSION superuser")
             /\ Grants(lastCall'.ops)
                    = (IF ConnectionUser(d) \in {EmptyText, <<"postgres">>} THEN {}
                       ELSE {<<"GRANT pg_monitor", ConnectionUser(d)>>,
                             <<"GRANT EXECUTE", ConnectionUser(d)>>})]_vars

\* the friendly names of the resources of SpecConc and SpecRetire
ConcName(d) == IF d = "d1" THEN "prod" ELSE "stage"

\* ConfigMap c holds an entry under friendly name n
Listed(c, n) ==
    /\ c.exists
    /\ DataKey \in DOMAIN c.data
    /\ \E i \in DOMAIN c.data[DataKey] : c.data[DataKey][i].name = n

\* C32: once the deletion path of d has rebuilt the ConfigMap without d's
\* entry and cleared the marker, so that d is erased, no write of a
\* sibling's invocation puts d's entry back
C32_DeletedStaysOut ==
    [][\A s \in Dbs : \A d \in Dbs \ {s} :
         (/\ ~dbs[d].exists
          /\ cm[NsOf(s)].exists /\ ~Listed(cm[NsOf(s)], ConcName(d))
          /\ CWrite(s)) =>
             ~Listed(cm'[NsOf(s)], ConcName(d))]_vars

\* what of resource d only a user or the control plane changes
Identity(obj) ==
    [exists |-> obj.exists, name |-> obj.name, namespace |-> obj.namespace,
     deleting |-> obj.deleting, spec |-> obj.spec]

Holds(c, d) ==
    /\ c.exists
    /\ DataKey \in DOMAIN c.data
    /\ \E i \in DOMAIN c.data[DataKey] : c.data[DataKey][i] = EntryOf(d)

\* C34: the write of an upsert is conditioned on a version read before the
\* resources were listed, so a write that is accepted never replaces the
\* artifact with a payload from an older listing: it never drops the entry
\* of a resource that was created and reconciled to Ready after the listing
C34_WriteNotFromOlderListing ==
    [][\A s \in Dbs : \A d \in Dbs \ {s} :
         (/\ Live(d) /\ dbs[d].status.phase = "Ready"
          /\ Holds(cm[NsOf(d)], d)
          /\ CWrite(s) /\ Wrote(lastCall'.ops) /\ lastCall'.err = NoErr) =>
             Holds(cm'[NsOf(d)], d)]_vars

\* C35: a status that carries phase Ready carries the reference
\* pghero-databases and extensionsReady true, and one that carries phase
\* Error or Configuring carries an empty reference; for a postgresql
\* resource a Ready status has an empty lastError and connection status
\* Connected
C35_StatusFieldsFollowPhase ==
    \A d \in Dbs :
        dbs[d].exists =>
            /\ dbs[d].status.phase = "Ready" =>
                   /\ dbs[d].status.configMapRef = configMapName
                   /\ dbs[d].status.extensionsReady
            /\ dbs[d].status.phase \in {"Error", "Configuring"} =>
                   dbs[d].status.configMapRef = ""
            /\ (IsPostgres(d) /\ dbs[d].status.phase = "Ready") =>
                   /\ dbs[d].status.lastError = EmptyText
                   /\ dbs[d].status.connectionStatus = "Connected"

\* a postgresql resource written Ready by an invocation that found it in
\* another phase
C35_Witness ==
    /\ lastCall.db = "d1" /\ StatusPersisted
    /\ lastCall.before \in {"Configuring", "Error"}
    /\ IsPostgres("d1") /\ dbs["d1"].status.phase = "Ready"
    /\ dbs["d1"].status.configMapRef = configMapName

\* C36: the payload an upsert or a rebuild writes is a mapping: no friendly
\* name stands in more than one of its entries, also when two enabled
\* resources of the namespace declare the same spec.name
C36_PayloadIsMapping ==
    \A d \in Dbs :
        (lastCall.db = d /\ Wrote(lastCall.ops) /\ lastCall.err = NoErr) =>
            \A i, j \in DOMAIN Payload(NsOf(d)) :
                Payload(NsOf(d))[i].name = Payload(NsOf(d))[j].name => i = j

\* the invocation for d found no ConfigMap and is about to create one where
\* another invocation has created it since
CreateTooLate(d) ==
    /\ wk[d].pc = "write" /\ ~wk[d].found.exists
    /\ cm[NsOf(d)].exists

\* C37: when two invocations of one namespace both find the artifact absent
\* and both create it, the first creation stands and the second is rejected
\* as already existing; the rejected invocation attempts no update, ends in
\* phase Error and is retried after 1 minute
C37_LateCreateIsError ==
    [][\A d \in Dbs :
         (CreateTooLate(d) /\ CWrite(d)) =>
             /\ cm' = cm
             /\ WriteAttempts(lastCall'.ops) = 1
             /\ ~Did(lastCall'.ops, "Update ConfigMap")
             /\ dbs'[d].status.phase = "Error"
             /\ dbs'[d].status.message
                    = <<"Failed to reconcile ConfigMap: %v", "already exists">>
             /\ dbs'[d].status.configMapRef = ""
             /\ lastCall'.err = NoErr /\ lastCall'.requeueAfter = 60]_vars

\* d1's creation was rejected after d2's took effect
C37_Witness ==
    /\ lastCall.db = "d1" /\ Did(lastCall.ops, "Create ConfigMap")
    /\ dbs["d1"].status.message = <<"Failed to reconcile ConfigMap: %v", "already exists">>
    /\ dbs["d1"].status.phase = "Error"
    /\ dbs["d2"].status.phase = "Ready"
    /\ cm["x"].exists /\ cm["x"].version = 1

\* C38: a rebuild on an existing artifact returns, with success or with an
\* error, whatever the shape of the artifact, also when its data or its
\* annotations are absent: the invocation does not fault in the rebuild and
\* goes on to the removal of the marker
C38_RebuildAlwaysReturns ==
    [][\A d \in Dbs :
         (DeletingMarked(d) /\ cm[NsOf(d)].exists /\ Reconcile(d)) =>
             /\ lastCall'.err # "panic"
             /\ Did(lastCall'.ops, "Get ConfigMap")
             /\ Did(lastCall'.ops, "Update Database")]_vars

====
